---- MODULE Spec2Model ----
(***************************************************************************)
(* Model of the mood-journaling pipeline: the text analysis of            *)
(* app/nlp_utils.py and the SQLite-backed entry store of app/db.py         *)
(* (class JournalDatabase).  Text is a sequence of one-character strings,  *)
(* so that formatting, parsing, comparing and matching text are computed   *)
(* the way Python and SQLite compute them.                                 *)
(***************************************************************************)
EXTENDS Integers, Sequences, FiniteSets, TLC

(***************************************************************************)
(* Characters and text                                                     *)
(***************************************************************************)

\* The printable ASCII characters in code order; Ascii[i] has code 31 + i
\* (the three characters a string literal cannot hold are spelled out).
Ascii ==
 <<
    " ", "!", "dquote", "#", "$", "%", "&", "'", "(", ")", "*", "+", ",", "-", ".", "/",
    "0", "1", "2", "3", "4", "5", "6", "7", "8", "9", ":", ";", "<", "=", ">", "?",
    "@", "A", "B", "C", "D", "E", "F", "G", "H", "I", "J", "K", "L", "M", "N", "O",
    "P", "Q", "R", "S", "T", "U", "V", "W", "X", "Y", "Z", "[", "backslash", "]", "^", "_",
    "backquote", "a", "b", "c", "d", "e", "f", "g", "h", "i", "j", "k", "l", "m", "n", "o",
    "p", "q", "r", "s", "t", "u", "v", "w", "x", "y", "z", "{", "|", "}", "~"
 >>

\* The letter U+017F (long s), the one character outside ASCII that the
\* month-name expression matches when letter case is ignored.
LongS == "longs"
LongSCode == 383

Char == {Ascii[i] : i \in 1..Len(Ascii)} \cup {LongS}

\* Byte value of a character: SQLite's BINARY collation and Python's str
\* comparison order text by these values.
Ord == [c \in Char |-> IF c = LongS THEN LongSCode
                     ELSE 31 + (CHOOSE i \in 1..Len(Ascii) : Ascii[i] = c)]

Chr(n) == Ascii[n - 31]

IsUpper(c) == Ord[c] >= Ord["A"] /\ Ord[c] <= Ord["Z"]
IsLower(c) == Ord[c] >= Ord["a"] /\ Ord[c] <= Ord["z"]
IsAlpha(c) == IsUpper(c) \/ IsLower(c)
IsDigit(c) == Ord[c] >= Ord["0"] /\ Ord[c] <= Ord["9"]

\* str.lower() on ASCII text.
LowerChar(c) == IF IsUpper(c) THEN Chr(Ord[c] + 32) ELSE c
Lower(s) == [i \in 1..Len(s) |-> LowerChar(s[i])]

\* memcmp order of two texts, a proper prefix sorting first.
RECURSIVE TextLess(_, _)
TextLess(s, t) ==
    IF t = <<>> THEN FALSE
    ELSE IF s = <<>> THEN TRUE
    ELSE IF s[1] # t[1] THEN Ord[s[1]] < Ord[t[1]]
    ELSE TextLess(Tail(s), Tail(t))

TextLeq(s, t) == s = t \/ TextLess(s, t)

\* The decimal digits of n, zero padded to width w.
Pad(n, w) == [i \in 1..w |-> Chr(Ord["0"] + ((n \div (10 ^ (w - i))) % 10))]

\* The number written by a run of digits.
RECURSIVE Num(_)
Num(s) == IF s = <<>> THEN 0
          ELSE 10 * Num(SubSeq(s, 1, Len(s) - 1)) + (Ord[s[Len(s)]] - Ord["0"])

\* s.split(sep): the pieces of s between occurrences of the character sep.
RECURSIVE SplitOn(_, _)
SplitOn(s, sep) ==
    IF \A i \in 1..Len(s) : s[i] # sep THEN <<s>>
    ELSE LET k == CHOOSE i \in 1..Len(s) :
                      s[i] = sep /\ \A j \in 1..(i - 1) : s[j] # sep
         IN  <<SubSeq(s, 1, k - 1)>> \o SplitOn(SubSeq(s, k + 1, Len(s)), sep)

\* sep.join(parts)
RECURSIVE Join(_, _)
Join(parts, sep) ==
    IF parts = <<>> THEN <<>>
    ELSE IF Len(parts) = 1 THEN parts[1]
    ELSE parts[1] \o <<sep>> \o Join(Tail(parts), sep)

(***************************************************************************)
(* app/nlp_utils.py                                                        *)
(***************************************************************************)

\* Sentiment scores are counted in hundredths: 50 stands for 0.5.
VeryNegativeMax == -50
NegativeMax == -10
NeutralMax == 10
PositiveMax == 50

categorize_mood_exclusive(sentiment_score) ==
    IF sentiment_score < VeryNegativeMax THEN "Very Negative"
    ELSE IF sentiment_score < NegativeMax THEN "Negative"
    ELSE IF sentiment_score < NeutralMax THEN "Neutral"
    ELSE IF sentiment_score < PositiveMax THEN "Positive"
    ELSE "Very Positive"

categorize_mood(sentiment_score) ==
    IF sentiment_score <= VeryNegativeMax THEN "Very Negative"
    ELSE IF sentiment_score <= NegativeMax THEN "Negative"
    ELSE IF sentiment_score <= NeutralMax THEN "Neutral"
    ELSE IF sentiment_score <= PositiveMax THEN "Positive"
    ELSE "Very Positive"

stop_words ==
  {
    <<"a","b","o","u","t">>, <<"a","b","o","v","e">>, <<"a","f","t","e","r">>,
    <<"a","g","a","i","n">>, <<"a","g","a","i","n","s","t">>, <<"a","l","l">>, <<"a","m">>,
    <<"a","n">>, <<"a","n","d">>, <<"a","n","y">>, <<"a","r","e">>, <<"a","s">>, <<"a","t">>,
    <<"b","e">>, <<"b","e","c","a","u","s","e">>, <<"b","e","e","n">>,
    <<"b","e","f","o","r","e">>, <<"b","e","i","n","g">>, <<"b","e","l","o","w">>,
    <<"b","e","t","w","e","e","n">>, <<"b","o","t","h">>, <<"b","u","t">>, <<"b","y">>,
    <<"c","a","n">>, <<"c","o","u","l","d">>, <<"d","i","d">>, <<"d","o">>,
    <<"d","o","e","s">>, <<"d","o","i","n","g">>, <<"d","o","w","n">>,
    <<"d","u","r","i","n","g">>, <<"e","a","c","h">>, <<"f","e","w">>, <<"f","o","r">>,
    <<"f","r","o","m">>, <<"f","u","r","t","h","e","r">>, <<"h","a","d">>, <<"h","a","s">>,
    <<"h","a","v","e">>, <<"h","a","v","i","n","g">>, <<"h","e">>, <<"h","e","r">>,
    <<"h","e","r","e">>, <<"h","e","r","s">>, <<"h","e","r","s","e","l","f">>, <<"h","i","m">>,
    <<"h","i","m","s","e","l","f">>, <<"h","i","s">>, <<"h","o","w">>, <<"i","f">>,
    <<"i","n">>, <<"i","n","t","o">>, <<"i","s">>, <<"i","t">>, <<"i","t","s">>,
    <<"i","t","s","e","l","f">>, <<"j","u","s","t">>, <<"m","e">>, <<"m","o","r","e">>,
    <<"m","o","s","t">>, <<"m","y">>, <<"m","y","s","e","l","f">>, <<"n","o">>,
    <<"n","o","r">>, <<"n","o","t">>, <<"n","o","w">>, <<"o","f">>, <<"o","f","f">>,
    <<"o","n">>, <<"o","n","c","e">>, <<"o","n","l","y">>, <<"o","r">>,
    <<"o","t","h","e","r">>, <<"o","u","r">>, <<"o","u","r","s">>,
    <<"o","u","r","s","e","l","v","e","s">>, <<"o","u","t">>, <<"o","v","e","r">>,
    <<"o","w","n">>, <<"s","a","m","e">>, <<"s","h","e">>, <<"s","h","o","u","l","d">>,
    <<"s","o">>, <<"s","o","m","e">>, <<"s","t","i","l","l">>, <<"s","u","c","h">>,
    <<"t","h","a","n">>, <<"t","h","a","t">>, <<"t","h","e">>, <<"t","h","e","i","r">>,
    <<"t","h","e","i","r","s">>, <<"t","h","e","m">>,
    <<"t","h","e","m","s","e","l","v","e","s">>, <<"t","h","e","n">>, <<"t","h","e","r","e">>,
    <<"t","h","e","s","e">>, <<"t","h","e","y">>, <<"t","h","i","s">>, <<"t","h","o","s","e">>,
    <<"t","h","r","o","u","g","h">>, <<"t","o">>, <<"t","o","o">>, <<"u","n","d","e","r">>,
    <<"u","n","t","i","l">>, <<"u","p">>, <<"v","e","r","y">>, <<"w","a","s">>, <<"w","e">>,
    <<"w","e","r","e">>, <<"w","h","a","t">>, <<"w","h","e","n">>, <<"w","h","e","r","e">>,
    <<"w","h","i","c","h">>, <<"w","h","i","l","e">>, <<"w","h","o">>, <<"w","h","o","m">>,
    <<"w","h","y">>, <<"w","i","l","l">>, <<"w","i","t","h">>, <<"w","o","u","l","d">>,
    <<"y","o","u">>, <<"y","o","u","r">>, <<"y","o","u","r","s">>,
    <<"y","o","u","r","s","e","l","f">>, <<"y","o","u","r","s","e","l","v","e","s">>,
    <<"l","i","k","e">>, <<"i","m">>, <<"i","v","e">>, <<"a","l","s","o">>, <<"g","e","t">>,
    <<"g","o","t">>
  }

\* str.split() with no argument: the maximal runs of non-blank characters.
words_of(text) == SelectSeq(SplitOn(text, " "), LAMBDA w : w # <<>>)

\* re.sub(r'[^a-zA-Z]', '', word)
clean_word(word) == SelectSeq(word, IsAlpha)

DefaultMinLength == 4
DefaultMaxWords == 50

extract_keywords_raw_filter(text, min_length, max_words) ==
    LET words == words_of(Lower(text))
        Keep(w) == /\ Len(w) >= min_length
                   /\ w \notin stop_words
                   /\ clean_word(w) # <<>>
        kept == SelectSeq(words, Keep)
        cleaned_words == [i \in 1..Len(kept) |-> clean_word(kept[i])]
    IN  SubSeq(cleaned_words, 1, IF Len(cleaned_words) < max_words
                                  THEN Len(cleaned_words) ELSE max_words)

extract_keywords(text, min_length, max_words) ==
    LET words == words_of(Lower(text))
        cleaned == [i \in 1..Len(words) |-> clean_word(words[i])]
        Keep(w) == /\ Len(w) >= min_length
                   /\ w \notin stop_words
                   /\ w # <<>> /\ \A i \in 1..Len(w) : IsAlpha(w[i])
        cleaned_words == SelectSeq(cleaned, Keep)
    IN  SubSeq(cleaned_words, 1, IF Len(cleaned_words) < max_words
                                  THEN Len(cleaned_words) ELSE max_words)

\* A pandas Timestamp.
Timestamp(y, mo, d, h, mi, s) ==
    [year |-> y, month |-> mo, day |-> d, hour |-> h, minute |-> mi, second |-> s]

\* pd.to_datetime on ISO text: "YYYY-MM-DD" or "YYYY-MM-DD HH:MM:SS".
to_datetime(text) ==
    LET timed == Len(text) >= 19
    IN  Timestamp(Num(SubSeq(text, 1, 4)), Num(SubSeq(text, 6, 7)),
                  Num(SubSeq(text, 9, 10)),
                  IF timed THEN Num(SubSeq(text, 12, 13)) ELSE 0,
                  IF timed THEN Num(SubSeq(text, 15, 16)) ELSE 0,
                  IF timed THEN Num(SubSeq(text, 18, 19)) ELSE 0)

\* The journal entries read from the CSV interchange file: date, title, content.
JournalEntries ==
  { [date |-> <<"2","0","2","5","-","0","1","-","1","0">>,
     title |-> <<"W","a","l","k">>,
     content |-> <<"F","e","l","t"," ","H","A","P","P","Y"," ","t","o","d","a","y">>],
    [date |-> <<"2","0","2","5","-","0","2","-","0","1">>,
     title |-> <<"R","a","i","n">>,
     content |-> <<"5","0","%"," ","s","a","d">>] }

\* TextBlob(text).sentiment of the lexicon scorer, an external collaborator:
\* (polarity, subjectivity) in hundredths for the contents above.
analyze_sentiment(text) ==
    IF text[1] = "F" THEN <<80, 100>> ELSE <<-50, 100>>

analyze_entry(e) ==
    LET sentiments == analyze_sentiment(e.content)
    IN  [date |-> to_datetime(e.date),
         title |-> e.title,
         content |-> e.content,
         sentiment_score |-> sentiments[1],
         subjectivity_score |-> sentiments[2],
         mood_category |-> categorize_mood(sentiments[1]),
         keywords |-> extract_keywords(e.content, DefaultMinLength, DefaultMaxWords)]

\* The rows of the frame analyze_journal_entries returns.
AnalyzedEntries == {analyze_entry(e) : e \in JournalEntries}

(***************************************************************************)
(* app/db.py: class JournalDatabase                                        *)
(***************************************************************************)

\* Bounds of the model.
MaxId == 3        \* largest id the AUTOINCREMENT counter may reach
MaxBatch == 2     \* rows of one DataFrame handed to insert_entries

\* Python values that are not text: None in a text cell, NaN in a list cell.
None == <<"None">>
NaN == << <<"NaN">> >>

\* str(row['date']) of a pandas Timestamp: "YYYY-MM-DD HH:MM:SS".
str_timestamp(ts) ==
    Pad(ts.year, 4) \o <<"-">> \o Pad(ts.month, 2) \o <<"-">> \o Pad(ts.day, 2)
    \o <<" ">> \o Pad(ts.hour, 2) \o <<":">> \o Pad(ts.minute, 2)
    \o <<":">> \o Pad(ts.second, 2)

\* ','.join(row.get('keywords', [])) if row.get('keywords') else ''
keywords_str(row) == IF row.keywords # <<>> THEN Join(row.keywords, ",") ELSE <<>>

keywords_list_unguarded(x) == SplitOn(x, ",")

\* x.split(',') if x else []
keywords_list(x) == IF x # <<>> THEN SplitOn(x, ",") ELSE <<>>

\* The exception, if any, that handling one DataFrame row raises: joining a
\* NaN keywords cell is a TypeError raised by Python before the statement
\* runs; a NULL content violates NOT NULL and is an sqlite3.IntegrityError.
RowError(row) ==
    IF row.keywords = NaN THEN "TypeError"
    ELSE IF row.content = None THEN "sqlite3.Error"
    ELSE "none"

\* The rows a DataFrame handed to insert_entries can hold: analyzed entries,
\* and rows with a missing content or a missing keywords cell.
SomeEntry == CHOOSE e \in AnalyzedEntries : e.keywords # <<>>
InputRows == AnalyzedEntries \cup { [SomeEntry EXCEPT !.content = None],
                                     [SomeEntry EXCEPT !.keywords = NaN] }

\* The loop stops at the first row that raises, so the rows behind it are
\* never read: frames that differ only there are the same input.
DataFrames == { df \in UNION { [1..n -> InputRows] : n \in 0..MaxBatch } :
                  \A i \in 1..(Len(df) - 1) : RowError(df[i]) = "none" }

\* Index of the first row of df whose handling raises, 0 if none does.
FirstError(df) ==
    IF \A i \in 1..Len(df) : RowError(df[i]) = "none" THEN 0
    ELSE CHOOSE i \in 1..Len(df) :
            RowError(df[i]) # "none" /\ \A j \in 1..(i - 1) : RowError(df[j]) = "none"

\* The table row one INSERT statement writes. The id is the AUTOINCREMENT
\* key; ok tells whether the insert_entries call that wrote the row returned
\* (bookkeeping of the model, not a column). created_at is read by no
\* operation and is left out.
InsertedRow(row, id, ok) ==
    [id |-> id,
     date |-> str_timestamp(row.date),
     title |-> row.title,
     content |-> row.content,
     sentiment_score |-> row.sentiment_score,
     mood_category |-> row.mood_category,
     keywords |-> keywords_str(row),
     ok |-> ok]

\* INTEGER PRIMARY KEY AUTOINCREMENT: the next id is one more than the
\* largest id the table's sqlite_sequence entry records.
NextId(seq, i) == seq + i

\* The record a query returns for a table row (the SELECT list has no id).
Record(r) ==
    [date |-> to_datetime(r.date),
     title |-> r.title,
     content |-> r.content,
     sentiment_score |-> r.sentiment_score,
     mood_category |-> r.mood_category,
     keywords |-> keywords_list(r.keywords)]

RECURSIVE OrderByDateAsc(_)
OrderByDateAsc(rows) ==
    IF rows = {} THEN {<<>>}
    ELSE UNION { { <<Record(r)>> \o rest : rest \in OrderByDateAsc(rows \ {r}) } :
                 r \in { x \in rows : \A y \in rows : TextLeq(x.date, y.date) } }

\* ORDER BY date DESC: SQL leaves the order of rows with equal dates open,
\* so the result is any arrangement of the rows with dates never increasing.
RECURSIVE OrderByDateDesc(_)
OrderByDateDesc(rows) ==
    IF rows = {} THEN {<<>>}
    ELSE UNION { { <<Record(r)>> \o rest : rest \in OrderByDateDesc(rows \ {r}) } :
                 r \in { x \in rows : \A y \in rows : TextLeq(y.date, x.date) } }

\* SQLite's LIKE with no ESCAPE clause: % matches any run of characters,
\* _ matches any one character, and ASCII letters match in either case.
RECURSIVE Like(_, _)
Like(text, pattern) ==
    IF pattern = <<>> THEN text = <<>>
    ELSE IF pattern[1] = "%"
         THEN \E k \in 0..Len(text) : Like(SubSeq(text, k + 1, Len(text)), Tail(pattern))
    ELSE IF text = <<>> THEN FALSE
    ELSE IF pattern[1] = "_" THEN Like(Tail(text), Tail(pattern))
    ELSE LowerChar(pattern[1]) = LowerChar(text[1]) /\ Like(Tail(text), Tail(pattern))

\* f'%{search_term}%'
search_pattern(search_term) == <<"%">> \o search_term \o <<"%">>

strftime_Yd(date) ==
    LET ts == to_datetime(date) IN Pad(ts.year, 4) \o <<"-">> \o Pad(ts.day, 2)

\* strftime('%Y-%m', date) of SQLite on ISO date text.
strftime_Ym(date) ==
    LET ts == to_datetime(date) IN Pad(ts.year, 4) \o <<"-">> \o Pad(ts.month, 2)

\* Numbers that need not be whole (means) are fractions in lowest terms, in
\* hundredths like the scores; den = 0 stands for SQL NULL.
RECURSIVE GCD(_, _)
GCD(a, b) == IF b = 0 THEN a ELSE GCD(b, a % b)
Abs(n) == IF n < 0 THEN -n ELSE n
Fraction(n, d) == LET g == GCD(Abs(n), d) IN [num |-> n \div g, den |-> d \div g]
SqlNull == [num |-> 0, den |-> 0]
Zero == [num |-> 0, den |-> 1]

RECURSIVE SumScores(_)
SumScores(rows) == IF rows = <<>> THEN 0
                   ELSE rows[1].sentiment_score + SumScores(Tail(rows))

\* AVG(sentiment_score) over rows: NULL when there is no row.
SqlAvg(rows) == IF rows = <<>> THEN SqlNull ELSE Fraction(SumScores(rows), Len(rows))

\* cursor.fetchone()[0] or 0.0
or_zero(x) == IF x = SqlNull \/ x.num = 0 THEN Zero ELSE x

mood_counts_all_categories(rows) ==
    [m \in {"Very Negative", "Negative", "Neutral", "Positive", "Very Positive"} |->
        Cardinality({i \in 1..Len(rows) : rows[i].mood_category = m})]

\* SELECT mood_category, COUNT(*) ... GROUP BY mood_category, as a dict.
mood_counts(rows) ==
    [m \in {rows[i].mood_category : i \in 1..Len(rows)} |->
        Cardinality({i \in 1..Len(rows) : rows[i].mood_category = m})]

\* SELECT strftime('%Y-%m', date) as month, AVG(sentiment_score) ... GROUP BY month
monthly_data(rows) ==
    [month \in {strftime_Ym(rows[i].date) : i \in 1..Len(rows)} |->
        SqlAvg(SelectSeq(rows, LAMBDA r : strftime_Ym(r.date) = month))]

\* The arguments the callers pass to the queries.
DateParams == {e.date : e \in JournalEntries}
MoodCategories == {"Very Negative", "Negative", "Neutral", "Positive", "Very Positive"}
SearchTerms == { <<"h","a","p","p","y">>, <<"r","a","i","n">>, <<"_">>, <<"%">> }

Range(s) == {s[i] : i \in 1..Len(s)}

VARIABLES
    conn,             \* "open" or "closed" (self.conn is None)
    journal_entries,  \* committed rows of the table, in rowid order
    sqlite_sequence,  \* committed AUTOINCREMENT counter of the table
    txn_rows,         \* rows inserted by the connection's uncommitted transaction
    txn_seq,          \* AUTOINCREMENT counter as the connection sees it
    ret,              \* what the last operation returned or raised
    batch_sum,        \* rows of the successful batches since the last clear
    max_assigned,     \* largest id any INSERT statement has assigned
    max_committed     \* largest id of any row ever committed

vars == <<conn, journal_entries, sqlite_sequence, txn_rows, txn_seq, ret,
          batch_sum, max_assigned, max_committed>>

\* The table as the statements of this connection see it.
Table == journal_entries \o txn_rows

\* The largest id among rows, or base if that is larger.
LargestId(rows, base) ==
    LET ids == {rows[i].id : i \in 1..Len(rows)} \cup {base}
    IN  CHOOSE m \in ids : \A x \in ids : x <= m

Result(op, args, raised, value) ==
    [op |-> op, args |-> args, raised |-> raised, value |-> value,
     reopened |-> (conn = "closed")]

\* __init__ on a new database file: _create_tables connects and creates the
\* empty table.
Init ==
    /\ conn = "open"
    /\ journal_entries = <<>>
    /\ sqlite_sequence = 0
    /\ txn_rows = <<>>
    /\ txn_seq = 0
    /\ ret = [op |-> "__init__", args |-> <<>>, raised |-> "none", value |-> <<>>,
              reopened |-> FALSE]
    /\ batch_sum = 0
    /\ max_assigned = 0
    /\ max_committed = 0

never_connect == conn' = conn

\* if self.conn is None: self._create_tables() -- the first statement of
\* every operation but close: afterwards the connection is open.
lazy_connect == conn' = "open"

\* conn.commit(): the transaction's rows and counter become the table's.
\* conn.rollback(), and conn.close() with a transaction open, drop them.
insert_entries(df) ==
    LET k == FirstError(df)
        good == IF k = 0 THEN df ELSE SubSeq(df, 1, k - 1)
        raised == IF k = 0 THEN "none" ELSE RowError(df[k])
        new == [i \in 1..Len(good) |->
                   InsertedRow(good[i], NextId(txn_seq, i), raised = "none")]
    IN  /\ txn_seq + Len(good) <= MaxId
        /\ lazy_connect
        /\ max_assigned' = LargestId(new, max_assigned)
        /\ IF raised = "none"
           THEN \* every row inserted: commit, return inserted_count
                /\ journal_entries' = journal_entries \o txn_rows \o new
                /\ sqlite_sequence' = txn_seq + Len(new)
                /\ txn_rows' = <<>>
                /\ txn_seq' = txn_seq + Len(new)
                /\ max_committed' = LargestId(journal_entries', max_committed)
                /\ batch_sum' = batch_sum + Len(df)
                /\ ret' = Result("insert_entries", df, "none", Len(new))
           ELSE IF raised = "sqlite3.Error"
           THEN \* except sqlite3.Error: rollback and re-raise
                /\ txn_rows' = <<>>
                /\ txn_seq' = sqlite_sequence
                /\ ret' = Result("insert_entries", df, raised, None)
                /\ UNCHANGED <<journal_entries, sqlite_sequence, max_committed,
                               batch_sum>>
           ELSE \* any other exception leaves the handler as it is: the rows
                \* inserted so far stay in the open transaction
                /\ txn_rows' = txn_rows \o new
                /\ txn_seq' = txn_seq + Len(new)
                /\ ret' = Result("insert_entries", df, raised, None)
                /\ UNCHANGED <<journal_entries, sqlite_sequence, max_committed,
                               batch_sum>>

\* A query changes nothing but the connection, which it opens if closed.
Query(op, args, value) ==
    /\ lazy_connect
    /\ ret' = Result(op, args, "none", value)
    /\ UNCHANGED <<journal_entries, sqlite_sequence, txn_rows, txn_seq,
                   batch_sum, max_assigned, max_committed>>

get_all_entries ==
    \E value \in OrderByDateDesc(Range(Table)) :
        Query("get_all_entries", <<>>, value)

get_entries_by_date_range(start_date, end_date) ==
    \E value \in OrderByDateDesc({r \in Range(Table) :
                     TextLeq(start_date, r.date) /\ TextLeq(r.date, end_date)}) :
        Query("get_entries_by_date_range", <<start_date, end_date>>, value)

get_entries_by_mood(mood_category) ==
    \E value \in OrderByDateDesc({r \in Range(Table) : r.mood_category = mood_category}) :
        Query("get_entries_by_mood", <<mood_category>>, value)

search_entries(search_term) ==
    \E value \in OrderByDateDesc({r \in Range(Table) :
                     \/ Like(r.content, search_pattern(search_term))
                     \/ Like(r.title, search_pattern(search_term))}) :
        Query("search_entries", <<search_term>>, value)

get_mood_statistics ==
    Query("get_mood_statistics", <<>>,
          [total_entries |-> Len(Table),
           average_sentiment |-> or_zero(SqlAvg(Table)),
           mood_distribution |-> mood_counts(Table),
           monthly_sentiment |-> monthly_data(Table)])

DeleteAll_resetting(seq) == [rows |-> <<>>, seq |-> 0]

\* DELETE FROM journal_entries: the rows go, the AUTOINCREMENT counter stays.
DeleteAll(seq) == [rows |-> <<>>, seq |-> seq]

clear_database ==
    LET after == DeleteAll(txn_seq)
    IN  /\ lazy_connect
        /\ journal_entries' = after.rows
        /\ sqlite_sequence' = after.seq
        /\ txn_rows' = <<>>
        /\ txn_seq' = after.seq
        /\ batch_sum' = 0
        /\ ret' = Result("clear_database", <<>>, "none", None)
        /\ UNCHANGED <<max_assigned, max_committed>>

\* conn.close() commits nothing: an open transaction is rolled back.
close ==
    /\ IF conn = "open"
       THEN /\ conn' = "closed"
            /\ txn_rows' = <<>>
            /\ txn_seq' = sqlite_sequence
       ELSE UNCHANGED <<conn, txn_rows, txn_seq>>
    /\ ret' = Result("close", <<>>, "none", None)
    /\ UNCHANGED <<journal_entries, sqlite_sequence, batch_sum,
                   max_assigned, max_committed>>

Next ==
    \/ \E df \in DataFrames : insert_entries(df)
    \/ get_all_entries
    \/ \E a \in DateParams, b \in DateParams : get_entries_by_date_range(a, b)
    \/ \E m \in MoodCategories : get_entries_by_mood(m)
    \/ \E t \in SearchTerms : search_entries(t)
    \/ get_mood_statistics
    \/ clear_database
    \/ close

Spec == Init /\ [][Next]_vars

(***************************************************************************)
(* Properties of the entry store                                           *)
(***************************************************************************)

\* The calendar date of a Timestamp, and the order of calendar dates.
CalendarDate(ts) == <<ts.year, ts.month, ts.day>>
DateLeq(a, b) ==
    \/ a[1] < b[1]
    \/ a[1] = b[1] /\ a[2] < b[2]
    \/ a[1] = b[1] /\ a[2] = b[2] /\ a[3] <= b[3]

\* The calendar date of a table row.
RowDate(r) == CalendarDate(to_datetime(r.date))

Occurrences(seq, x) == Cardinality({i \in 1..Len(seq) : seq[i] = x})

\* value holds one record for every row of rows, and nothing else.
OneRecordPerRow(value, rows) ==
    /\ Len(value) = Cardinality(rows)
    /\ \A r \in rows :
          Occurrences(value, Record(r)) = Cardinality({q \in rows : Record(q) = Record(r)})

\* The dates of the records never increase from one record to the next.
DatesNeverIncrease(value) ==
    \A i \in 1..(Len(value) - 1) :
        DateLeq(CalendarDate(value[i + 1].date), CalendarDate(value[i].date))

\* needle occurs in text as a substring.
Contains(text, needle) ==
    \E k \in 0..(Len(text) - Len(needle)) : SubSeq(text, k + 1, k + Len(needle)) = needle

\* C1: get_entries_by_date_range(A, B) returns exactly the stored rows whose
\* calendar date d satisfies A <= d <= B, both ends included, by date descending.
C1_DateRangeInclusive ==
    ret.op = "get_entries_by_date_range" /\ TextLeq(ret.args[1], ret.args[2]) =>
        LET A == CalendarDate(to_datetime(ret.args[1]))
            B == CalendarDate(to_datetime(ret.args[2]))
        IN  /\ OneRecordPerRow(ret.value,
                  {r \in Range(Table) : DateLeq(A, RowDate(r)) /\ DateLeq(RowDate(r), B)})
            /\ DatesNeverIncrease(ret.value)

\* The step is an insert_entries call that raised / that returned.
InsertRaised == ret'.op = "insert_entries" /\ ret'.raised # "none"
InsertReturned == ret'.op = "insert_entries" /\ ret'.raised = "none"

\* C2: when insert_entries fails at some row, the error reaches the caller and
\* the store holds exactly the rows it held before the call; no row of a failed
\* batch is ever visible or committed afterwards.
C2_FailedBatchLeavesNothing ==
    /\ [](\A i \in 1..Len(Table) : Table[i].ok)
    /\ [][InsertRaised => Table' = Table]_vars

\* C3: a successful insert_entries with n entries returns n and adds exactly n
\* rows, and the row count is the sum of the sizes of the successful batches
\* since the last clear.
C3_InsertAddsExactlyN ==
    /\ [](ret.op = "insert_entries" /\ ret.raised = "none" => Len(Table) = batch_sum)
    /\ [][InsertReturned =>
             /\ ret'.value = Len(ret'.args)
             /\ Len(Table') = Len(Table) + Len(ret'.args)]_vars

\* The ids of the stored rows are pairwise distinct.
IdsDistinct == \A i, j \in 1..Len(Table) : i # j => Table[i].id # Table[j].id

\* The rows of Table' written by the insert_entries call of this step: the
\* call appends them to what the table held.
NewRows == {Table'[i] : i \in (Len(Table) + 1)..Len(Table')}

\* C4 (as claimed): ids of stored rows are pairwise distinct and every newly
\* inserted row gets an id greater than every id ever assigned before.
C4_IdsNeverReused ==
    /\ []IdsDistinct
    /\ [][ret'.op = "insert_entries" => \A r \in NewRows : r.id > max_assigned]_vars

\* C4 (amended): ids of stored rows are pairwise distinct and every newly
\* inserted row gets an id greater than the id of every row ever committed,
\* rows deleted by clear_database included.
C4_IdsAboveCommitted ==
    /\ []IdsDistinct
    /\ [][ret'.op = "insert_entries" => \A r \in NewRows : r.id > max_committed]_vars

C4_Witness ==
    /\ ret.op = "insert_entries" /\ ret.raised = "none" /\ ret.value > 0
    /\ max_committed > Len(journal_entries) + 1

\* C5: an operation called while the connection is closed reopens the storage
\* and completes as on an open store, seeing exactly the rows committed before
\* the close; a second close() in a row changes nothing.
C5_ClosedStoreReopens ==
    /\ [](conn = "closed" => txn_rows = <<>> /\ txn_seq = sqlite_sequence)
    /\ [][ret'.op = "close" => conn' = "closed" /\ journal_entries' = journal_entries]_vars
    /\ [][conn = "closed" /\ ret'.op = "close" =>
             UNCHANGED <<conn, journal_entries, sqlite_sequence, txn_rows, txn_seq>>]_vars
    /\ [][conn = "closed" /\ ret'.op # "close" =>
             /\ conn' = "open" /\ ret'.reopened
             /\ ret'.op = "get_all_entries" => OneRecordPerRow(ret'.value, Range(journal_entries))
             /\ ret'.op = "get_mood_statistics" =>
                    ret'.value.total_entries = Len(journal_entries)
             /\ ret'.op \in {"get_entries_by_date_range", "get_entries_by_mood",
                             "search_entries"} =>
                    \A i \in 1..Len(ret'.value) :
                        \E r \in Range(journal_entries) : ret'.value[i] = Record(r)
             /\ ret'.op = "insert_entries" /\ ret'.raised = "none" =>
                    /\ Len(journal_entries') = Len(journal_entries) + ret'.value
                    /\ SubSeq(journal_entries', 1, Len(journal_entries)) = journal_entries
             /\ ret'.op = "clear_database" => Table' = <<>>]_vars

C5_Witness ==
    /\ ret.reopened /\ ret.op = "get_all_entries" /\ Len(ret.value) > 0
    /\ max_assigned > max_committed

\* C6: no operation other than clear_database changes or removes a stored row.
C6_RowsOnlyRemovedByClear ==
    [][ret'.op # "clear_database" =>
          /\ Len(Table') >= Len(Table)
          /\ SubSeq(Table', 1, Len(Table)) = Table]_vars

\* The fields of an analyzed entry that the store keeps.
Kept(e) ==
    [date |-> e.date, title |-> e.title, content |-> e.content,
     sentiment_score |-> e.sentiment_score, mood_category |-> e.mood_category,
     keywords |-> e.keywords]

\* C7: analyzed entries inserted into an empty store and read back with
\* get_all_entries come back one record each, with the same date, title,
\* content, sentiment_score, mood_category and keywords list.
C7_RoundTrip ==
    [][/\ ret.op = "insert_entries" /\ ret.raised = "none"
       /\ Len(Table) = Len(ret.args)
       /\ ret'.op = "get_all_entries"
       => /\ Len(ret'.value) = Len(ret.args)
          /\ \A i \in 1..Len(ret.args) :
                Occurrences(ret'.value, Kept(ret.args[i]))
                    = Cardinality({j \in 1..Len(ret.args) : ret.args[j] = ret.args[i]})]_vars

C7_Witness ==
    /\ ret.op = "get_all_entries" /\ Len(ret.value) = 2 /\ max_assigned = 2
    /\ \E i, j \in 1..2 : ret.value[i].keywords = <<>> /\ Len(ret.value[j].keywords) = 3

\* C8: get_all_entries returns every stored row exactly once, duplicates as
\* separate records, with dates never increasing.
C8_AllEntriesOnceByDateDesc ==
    ret.op = "get_all_entries" =>
        /\ OneRecordPerRow(ret.value, Range(Table))
        /\ DatesNeverIncrease(ret.value)

C8_Witness ==
    /\ ret.op = "get_all_entries" /\ Len(ret.value) >= 3
    /\ ret.value[1] = ret.value[2]
    /\ ret.value[2].date # ret.value[3].date

\* C9: search_entries(term) returns exactly the stored rows whose title or
\* content contains term, taken literally, as a substring, letter case ignored.
C9_SearchIsLiteralSubstring ==
    ret.op = "search_entries" =>
        OneRecordPerRow(ret.value,
            {r \in Range(Table) :
                \/ Contains(Lower(r.title), Lower(ret.args[1]))
                \/ Contains(Lower(r.content), Lower(ret.args[1]))})

\* C10: get_mood_statistics describes the rows currently stored: total_entries
\* is the row count, mood_distribution has exactly the categories that occur,
\* each with its number of rows, and an empty store gives 0 and 0.0.
C10_StatisticsDescribeTable ==
    ret.op = "get_mood_statistics" =>
        LET dist == ret.value.mood_distribution
            NumRows(m) == Cardinality({i \in 1..Len(Table) : Table[i].mood_category = m})
        IN  /\ ret.value.total_entries = Len(Table)
            /\ DOMAIN dist \subseteq MoodCategories
            /\ \A m \in MoodCategories :
                  IF NumRows(m) = 0 THEN m \notin DOMAIN dist
                  ELSE m \in DOMAIN dist /\ dist[m] = NumRows(m)
            /\ Table = <<>> =>
                  ret.value.total_entries = 0 /\ ret.value.average_sentiment = Zero

C10_Witness ==
    /\ ret.op = "get_mood_statistics" /\ ret.value.total_entries >= 3
    /\ Cardinality(DOMAIN ret.value.mood_distribution) = 2

\* A key of monthly_sentiment read back as <<year, month>>, and its shape.
IsYearMonth(key) ==
    /\ Len(key) = 7 /\ key[5] = "-"
    /\ \A i \in {1, 2, 3, 4, 6, 7} : IsDigit(key[i])
    /\ Num(SubSeq(key, 6, 7)) \in 1..12
YearMonth(key) == <<Num(SubSeq(key, 1, 4)), Num(SubSeq(key, 6, 7))>>
RowMonth(r) == <<RowDate(r)[1], RowDate(r)[2]>>

\* C11: in the result of get_mood_statistics every key of monthly_sentiment has
\* the form YYYY-MM, there is a key exactly for the calendar months in which a
\* stored row is dated, and the value under a key is the mean over all stored
\* rows of that month and no others.
C11_MonthlyKeysAreRowMonths ==
    ret.op = "get_mood_statistics" =>
        LET monthly == ret.value.monthly_sentiment
            InMonth(key) == SelectSeq(Table, LAMBDA r : RowMonth(r) = YearMonth(key))
        IN  /\ \A key \in DOMAIN monthly : IsYearMonth(key)
            /\ {YearMonth(key) : key \in DOMAIN monthly} = {RowMonth(r) : r \in Range(Table)}
            /\ Cardinality(DOMAIN monthly) = Cardinality({RowMonth(r) : r \in Range(Table)})
            /\ \A key \in DOMAIN monthly :
                  /\ InMonth(key) # <<>>
                  /\ monthly[key] = Fraction(SumScores(InMonth(key)), Len(InMonth(key)))

C11_Witness ==
    /\ ret.op = "get_mood_statistics"
    /\ Cardinality(DOMAIN ret.value.monthly_sentiment) = 2
    /\ Len(Table) >= 3

\* ---------------------------------------------------------------------------
\* The functions of nlp_utils.py applied to bounded inputs.  A call leaves the
\* database alone and records its arguments and its result in ret.
\* ---------------------------------------------------------------------------

\* Bounds: words per text, and the largest min_length tried.
MaxTextWords == 3
MaxMinLength == 5

\* Polarity runs from -1 to 1, in hundredths.
MaxPolarity == 100
Polarities == (0 - MaxPolarity)..MaxPolarity

\* Whitespace-separated pieces of a text; the empty piece gives runs of blanks.
TextWords == {<<>>, <<"T", "h", "e", "y", "!">>, <<"h", "a", "p", "p", "y">>, <<"s", "u", "n">>, <<"S", "u", "n", "n", "y", ",">>, <<"4", "2">>}

RECURSIVE SeqsUpTo(_, _)
SeqsUpTo(S, n) ==
    IF n = 0 THEN {<<>>}
    ELSE LET shorter == SeqsUpTo(S, n - 1)
         IN  shorter \cup {Append(q, x) : q \in {t \in shorter : Len(t) = n - 1}, x \in S}

Texts == {Join(ws, " ") : ws \in SeqsUpTo(TextWords, MaxTextWords)}

Untouched == UNCHANGED <<conn, journal_entries, sqlite_sequence, txn_rows, txn_seq,
                         batch_sum, max_assigned, max_committed>>

\* A call that has been given its arguments and has not run yet.
Pending(fn, args) == [op |-> "pending", fn |-> fn, args |-> args]
IsPending(fn) == ret.op = "pending" /\ ret.fn = fn

Call_categorize_mood ==
    /\ IsPending("categorize_mood")
    /\ LET sentiment_score == ret.args[1] IN
       ret' = Result("categorize_mood", <<sentiment_score>>, "none",
                     categorize_mood(sentiment_score))
    /\ Untouched

Call_extract_keywords ==
    /\ IsPending("extract_keywords")
    /\ LET text == ret.args[1]
           min_length == ret.args[2]
           max_words == ret.args[3] IN
       ret' = Result("extract_keywords", <<text, min_length, max_words>>, "none",
                     extract_keywords(text, min_length, max_words))
    /\ Untouched

\* The mood categories as the strings numpy compares.
MoodText ==
    [c \in {"Very Negative", "Negative", "Neutral", "Positive", "Very Positive"} |->
        CASE c = "Very Negative" -> <<"V", "e", "r", "y", " ", "N", "e", "g", "a", "t", "i", "v", "e">>
          [] c = "Negative" -> <<"N", "e", "g", "a", "t", "i", "v", "e">>
          [] c = "Neutral" -> <<"N", "e", "u", "t", "r", "a", "l">>
          [] c = "Positive" -> <<"P", "o", "s", "i", "t", "i", "v", "e">>
          [] c = "Very Positive" -> <<"V", "e", "r", "y", " ", "P", "o", "s", "i", "t", "i", "v", "e">>]

\* Series.value_counts of one value.
value_count(series, v) == Cardinality({i \in 1..Len(series) : series[i] = v})

\* np.sort of a set of category strings.
RECURSIVE np_sort(_)
np_sort(values) ==
    IF values = {} THEN <<>>
    ELSE LET least == CHOOSE v \in values :
                          \A w \in values : TextLeq(MoodText[v], MoodText[w])
         IN  <<least>> \o np_sort(values \ {least})

\* Series.mode(): the values with the highest count, sorted.
mode(series) ==
    np_sort({series[i] : i \in {j \in 1..Len(series) :
                \A k \in 1..Len(series) :
                    value_count(series, series[k]) <= value_count(series, series[j])}})

\* Days of the year before each month of a common year.
DaysBeforeMonth == <<0, 31, 59, 90, 120, 151, 181, 212, 243, 273, 304, 334>>

\* A proleptic Gregorian ordinal that counts no leap day.
toordinal_no_leap(ts) == 365 * (ts.year - 1) + DaysBeforeMonth[ts.month] + ts.day

\* Timestamp.toordinal(): day 1 is 0001-01-01.
toordinal(ts) ==
    LET y == ts.year - 1
        leap == (ts.year % 4 = 0 /\ ts.year % 100 # 0) \/ ts.year % 400 = 0
    IN  365 * y + (y \div 4) - (y \div 100) + (y \div 400)
          + DaysBeforeMonth[ts.month] + (IF leap /\ ts.month > 2 THEN 1 ELSE 0) + ts.day

SecondsPerDay == 86400

\* toordinal() of 1970-01-01, the epoch of Timestamp.value.
EpochOrdinal == 719163

\* Timestamp.value in seconds since the epoch, which pandas orders and subtracts.
timestamp_value(ts) ==
    (toordinal(ts) - EpochOrdinal) * SecondsPerDay
        + ts.hour * 3600 + ts.minute * 60 + ts.second

series_max(series) ==
    CHOOSE v \in Range(series) : \A w \in Range(series) : timestamp_value(w) <= timestamp_value(v)
series_min(series) ==
    CHOOSE v \in Range(series) : \A w \in Range(series) : timestamp_value(v) <= timestamp_value(w)

\* (later - earlier).days of the Timedelta between two Timestamps.
Timedelta_days(later, earlier) ==
    (timestamp_value(later) - timestamp_value(earlier)) \div SecondsPerDay

Column(df, name) == [i \in 1..Len(df) |-> df[i][name]]

\* get_mood_statistics of nlp_utils on a frame that analyze_journal_entries
\* returned; the frame has a date column.
nlp_get_mood_statistics(df) ==
    IF df = <<>>
    THEN [total_entries |-> 0, avg_mood |-> Zero, most_common_mood |-> "N/A",
          date_range |-> 0]
    ELSE [total_entries |-> Len(df),
          avg_mood |-> Fraction(SumScores(df), Len(df)),
          most_common_mood |-> mode(Column(df, "mood_category"))[1],
          date_range |-> Timedelta_days(series_max(Column(df, "date")),
                                        series_min(Column(df, "date")))]

\* Bound: rows per analysed frame.
MaxEntries == 3

FrameDates == {<<"2", "0", "2", "4", "-", "0", "2", "-", "2", "8">>, <<"2", "0", "2", "4", "-", "0", "3", "-", "0", "1">>, <<"2", "0", "2", "5", "-", "0", "1", "-", "1", "0", " ", "2", "3", ":", "3", "0", ":", "0", "0">>, <<"2", "0", "2", "5", "-", "0", "2", "-", "0", "1">>}
FramePolarities == {80, 30, 0 - 30}

\* Rows of an analysed frame, with the columns the statistics read.
FrameRows ==
    {[date |-> to_datetime(d), sentiment_score |-> p, mood_category |-> categorize_mood(p)] :
        d \in FrameDates, p \in FramePolarities}

Frames == SeqsUpTo(FrameRows, MaxEntries)

Call_nlp_get_mood_statistics ==
    /\ IsPending("nlp_utils.get_mood_statistics")
    /\ ret' = Result("nlp_utils.get_mood_statistics", ret.args, "none",
                     nlp_get_mood_statistics(ret.args[1]))
    /\ Untouched

FrameCalls == {Pending("nlp_utils.get_mood_statistics", <<df>>) : df \in Frames}

NlpCalls ==
    {Pending("categorize_mood", <<p>>) : p \in Polarities}
    \cup {Pending("extract_keywords", <<text, min_length, max_words>>) :
            text \in Texts, min_length \in 0..MaxMinLength,
            max_words \in 0..(MaxTextWords + 1)}

\* The database is as __init__ leaves it; one call is waiting.
InitCall(calls) ==
    /\ conn = "open"
    /\ journal_entries = <<>>
    /\ sqlite_sequence = 0
    /\ txn_rows = <<>>
    /\ txn_seq = 0
    /\ batch_sum = 0
    /\ max_assigned = 0
    /\ max_committed = 0
    /\ ret \in calls

NlpInit == InitCall(NlpCalls) \/ InitCall(FrameCalls)

NlpNext ==
    \/ Call_categorize_mood
    \/ Call_extract_keywords
    \/ Call_nlp_get_mood_statistics

NlpSpec == NlpInit /\ [][NlpNext]_vars

\* C12: categorize_mood is total on [-1, 1] and returns exactly one of the five
\* categories by the boundary table, upper bounds included: p <= -0.5 Very
\* Negative, -0.5 < p <= -0.1 Negative, -0.1 < p <= 0.1 Neutral, 0.1 < p <= 0.5
\* Positive, p > 0.5 Very Positive; -0.5, -0.1, 0.1 and 0.5 fall in the lower
\* of their two neighbouring categories.
C12_BoundaryTable ==
    ret.op = "categorize_mood" =>
        LET p == ret.args[1]
            mood == ret.value
        IN  /\ mood \in MoodCategories
            /\ (mood = "Very Negative") = (p <= -50)
            /\ (mood = "Negative") = (-50 < p /\ p <= -10)
            /\ (mood = "Neutral") = (-10 < p /\ p <= 10)
            /\ (mood = "Positive") = (10 < p /\ p <= 50)
            /\ (mood = "Very Positive") = (p > 50)
            /\ p = -50 => mood = "Very Negative"
            /\ p = -10 => mood = "Negative"
            /\ p = 10 => mood = "Neutral"
            /\ p = 50 => mood = "Positive"

C12_Witness ==
    ret.op = "categorize_mood" /\ ret.args[1] = 50 /\ ret.value = "Positive"

\* The text's tokens read off by position: a token starts where a non-blank
\* follows a blank or the start, and runs to the next blank.
TokenStarts(text) ==
    {i \in 1..Len(text) : text[i] # " " /\ (i = 1 \/ text[i - 1] = " ")}
TokenAt(text, i) ==
    LET stop == CHOOSE j \in i..Len(text) :
                    /\ \A k \in i..j : text[k] # " "
                    /\ (j = Len(text) \/ text[j + 1] = " ")
    IN  SubSeq(text, i, stop)
LettersOf(token) ==
    LET at == {i \in 1..Len(token) : IsAlpha(token[i])}
        Nth(n) == CHOOSE i \in at : Cardinality({j \in at : j < i}) = n - 1
    IN  [n \in 1..Cardinality(at) |-> LowerChar(token[Nth(n)])]
Survives(token, min_length) ==
    /\ LettersOf(token) # <<>>
    /\ Len(LettersOf(token)) >= min_length
    /\ LettersOf(token) \notin stop_words
SurvivingTokens(text, min_length) ==
    LET at == {i \in TokenStarts(text) : Survives(TokenAt(text, i), min_length)}
        Nth(n) == CHOOSE i \in at : Cardinality({j \in at : j < i}) = n - 1
    IN  [n \in 1..Cardinality(at) |-> LettersOf(TokenAt(text, Nth(n)))]

IsSpace(c) == c = " "
IsWord(c) == IsAlpha(c) \/ IsDigit(c) \/ c = "_" \/ c = LongS
IsHex(c) == IsDigit(c) \/ (Ord[c] >= Ord["a"] /\ Ord[c] <= Ord["f"])
IsHyphen(c) == c = "-"

Spaces == {c \in Char : IsSpace(c)}
WordChars == {c \in Char : IsWord(c)}
Digits == {c \in Char : IsDigit(c)}
Letters == {c \in Char : IsAlpha(c)}
Hyphens == {c \in Char : IsHyphen(c)}

\* re.IGNORECASE: a character matches a lowercase letter of the expression
\* when its lowercase is that letter, and the long s matches s; [a-z] then
\* matches the long s too.
IgnoreCase(s) == [i \in 1..Len(s) |-> IF s[i] = LongS THEN "s" ELSE LowerChar(s[i])]
LettersIgnoreCase == Letters \cup {LongS}

\* Length of the longest run of characters of class in s that starts at index i;
\* a greedy quantifier that is followed by a character outside its class
\* takes exactly this run.
RunLen(s, i, class) ==
    CHOOSE n \in 0..(Len(s) - i + 1) :
        /\ \A j \in i..(i + n - 1) : s[j] \in class
        /\ (i + n > Len(s) \/ s[i + n] \notin class)

DropFirst(s, n) == SubSeq(s, n + 1, Len(s))
Reverse(s) == [i \in 1..Len(s) |-> s[Len(s) + 1 - i]]
StartsWith(s, prefix) == Len(s) >= Len(prefix) /\ SubSeq(s, 1, Len(prefix)) = prefix
EndsWith(s, suffix) == StartsWith(Reverse(s), Reverse(suffix))

\* str.lstrip, str.rstrip and str.strip for a character class.
lstrip(s, class) == DropFirst(s, RunLen(s, 1, class))
rstrip(s, class) == Reverse(lstrip(Reverse(s), class))
strip(s) == rstrip(lstrip(s, Spaces), Spaces)

\* os.path.splitext(filename)[0]: cut at the last dot unless only dots
\* come before it.
splitext_root(filename) ==
    LET dots == {i \in 1..Len(filename) : filename[i] = "."}
        last == CHOOSE i \in dots : \A j \in dots : j <= i
    IN  IF dots # {} /\ \E j \in 1..(last - 1) : filename[j] # "."
        THEN SubSeq(filename, 1, last - 1)
        ELSE filename

HashLen == 32

\* re.sub(r'\s[a-f0-9]{32}$', '', root)
strip_hash(root) ==
    LET n == Len(root) IN
    IF /\ n >= HashLen + 1
       /\ IsSpace(root[n - HashLen])
       /\ \A i \in (n - HashLen + 1)..n : IsHex(root[i])
    THEN SubSeq(root, 1, n - HashLen - 1)
    ELSE root

cleaned_name(filename) == strip(strip_hash(splitext_root(filename)))

NoMatch == [matched |-> FALSE]

\* Matching moves an index along the name: i is the index of the next
\* character to match, and Fail says that the match has failed.
Fail == 0

\* A greedy quantifier {lo,hi} over class whose successor in the expression
\* cannot start with a character of class: the whole run must fit.
Exactly(name, i, class, lo, hi) ==
    IF i = Fail THEN Fail
    ELSE IF RunLen(name, i, class) >= lo /\ RunLen(name, i, class) <= hi
    THEN i + RunLen(name, i, class)
    ELSE Fail

\* A greedy quantifier {lo,hi} over class with nothing required after it: it
\* takes up to hi characters of the run.
UpTo(name, i, class, lo, hi) ==
    IF i = Fail THEN Fail
    ELSE IF RunLen(name, i, class) < lo THEN Fail
    ELSE IF RunLen(name, i, class) > hi THEN i + hi
    ELSE i + RunLen(name, i, class)

\* \s+
SomeSpaces(name, i) == UpTo(name, i, Spaces, 1, Len(name))

NumbersMatch(name, i, p1, p2, p3, p4, p5) ==
    IF p5 = Fail THEN NoMatch
    ELSE [matched |-> TRUE,
          month |-> SubSeq(name, i, p1 - 1),
          day |-> SubSeq(name, p2, p3 - 1),
          year |-> SubSeq(name, p4, p5 - 1),
          end |-> p5 - 1]

\* (\d{1,2})\s+(\d{1,2})\s+(\d{2,4}) tried at index i of name.
MatchNumbers(name, i) ==
    LET p1 == Exactly(name, i, Digits, 1, 2)
        p2 == SomeSpaces(name, p1)
        p3 == Exactly(name, p2, Digits, 1, 2)
        p4 == SomeSpaces(name, p3)
        p5 == UpTo(name, p4, Digits, 2, 4)
    IN  NumbersMatch(name, i, p1, p2, p3, p4, p5)

\* re.match(r'^(?:\w+)\s+(\d{1,2})\s+(\d{1,2})\s+(\d{2,4})', name)
pattern1(name) ==
    IF name = <<>> THEN NoMatch
    ELSE MatchNumbers(name, SomeSpaces(name, UpTo(name, 1, WordChars, 1, Len(name))))

\* re.match(r'^(\d{1,2})\s+(\d{1,2})\s+(\d{2,4})', name)
pattern2(name) == MatchNumbers(name, 1)

\* if len(year) == 2: year = '20' + year;
\* f"{year}-{int(month):02d}-{int(day):02d}"
date_str(year, month, day) ==
    (IF Len(year) = 2 THEN <<"2", "0">> \o year ELSE year)
        \o <<"-">> \o Pad(month, 2) \o <<"-">> \o Pad(day, 2)

\* name[match.end():].strip().lstrip('-').strip()
residual_title(name, end) == strip(lstrip(strip(DropFirst(name, end)), Hyphens))

month_map ==
    (<<"j", "a", "n">> :> 1) @@ (<<"f", "e", "b">> :> 2) @@ (<<"m", "a", "r">> :> 3) @@ (<<"a", "p", "r">> :> 4) @@
    (<<"m", "a", "y">> :> 5) @@ (<<"j", "u", "n">> :> 6) @@ (<<"j", "u", "l">> :> 7) @@ (<<"a", "u", "g">> :> 8) @@
    (<<"s", "e", "p">> :> 9) @@ (<<"o", "c", "t">> :> 10) @@ (<<"n", "o", "v">> :> 11) @@ (<<"d", "e", "c">> :> 12)

\* (jan|...|dec), letter case ignored.
MonthName(name, p) ==
    IF p + 2 <= Len(name) /\ IgnoreCase(SubSeq(name, p, p + 2)) \in DOMAIN month_map
    THEN p + 3 ELSE Fail

\* (?:st|nd|rd|th)? and (?:,)?
OrdinalSuffix(name, i) ==
    IF i = Fail THEN Fail
    ELSE IF i + 1 <= Len(name)
            /\ IgnoreCase(SubSeq(name, i, i + 1)) \in {<<"s", "t">>, <<"n", "d">>, <<"r", "d">>, <<"t", "h">>}
    THEN i + 2 ELSE i
Comma(name, i) ==
    IF i = Fail THEN Fail
    ELSE IF i <= Len(name) /\ name[i] = "," THEN i + 1 ELSE i

MonthMatch(name, p, p2, p3, p6, p7) ==
    IF p7 = Fail THEN NoMatch
    ELSE [matched |-> TRUE,
          month_name |-> SubSeq(name, p, p + 2),
          day |-> SubSeq(name, p2, p3 - 1),
          year |-> SubSeq(name, p6, p7 - 1)]

\* The month-name expression tried at index p of name, letter case ignored:
\* (jan|...|dec)[a-z]*\s+(\d{1,2})(?:st|nd|rd|th)?(?:,)?\s+(\d{4})
MatchMonthAt(name, p) ==
    LET p1 == UpTo(name, MonthName(name, p), LettersIgnoreCase, 0, Len(name))
        p2 == SomeSpaces(name, p1)
        p3 == Exactly(name, p2, Digits, 1, 2)
        p6 == SomeSpaces(name, Comma(name, OrdinalSuffix(name, p3)))
        p7 == UpTo(name, p6, Digits, 4, 4)
    IN  MonthMatch(name, p, p2, p3, p6, p7)

\* re.search: the leftmost index at which the expression matches.
FirstMatch(name, at) ==
    IF at = {} THEN NoMatch
    ELSE MatchMonthAt(name, CHOOSE p \in at : \A q \in at : p <= q)
pattern3(name) == FirstMatch(name, {p \in 1..Len(name) : MatchMonthAt(name, p).matched})

\* The results of the three branches and of the final return.
numeric_result(name, match) ==
    [date |-> date_str(match.year, Num(match.month), Num(match.day)),
     title |-> residual_title(name, match.end)]
\* An exception that leaves the function instead of a value.
Raise(exception) == [raised |-> exception]
Raised(x) == "raised" \in DOMAIN x

\* month_map[...] raises KeyError for a key the dictionary does not hold.
month_result(name, match) ==
    IF Lower(match.month_name) \in DOMAIN month_map
    THEN [date |-> date_str(match.year, month_map[Lower(match.month_name)], Num(match.day)),
          title |-> name]
    ELSE Raise("KeyError")
no_result(name) == [date |-> None, title |-> name]

parse_name(name) ==
    IF pattern1(name).matched THEN numeric_result(name, pattern1(name))
    ELSE IF pattern2(name).matched THEN numeric_result(name, pattern2(name))
    ELSE IF pattern3(name).matched THEN month_result(name, pattern3(name))
    ELSE no_result(name)

extract_date_from_filename(filename) == parse_name(cleaned_name(filename))

\* Filenames: an optional weekday word, three numeric tokens, a rest, an
\* optional export hash and an optional extension; and names without a
\* numeric date.
NameLeads == {<<>>, <<"F", "r", "i", "d", "a", "y", " ">>}
MonthTokens == {<<"1">>, <<"1", "3">>}
DayTokens == {<<"1", "0">>, <<"4", "5">>}
YearTokens == {<<"2", "5">>, <<"2", "0", "2", "5">>, <<"2", "0", "2">>, <<"2", "0", "2", "5", "5">>}
NameRests == {<<>>, <<" ", "G", "r", "a", "t", "i", "t", "u", "d", "e">>, <<" ", "-", " ", "-", " ", "n", "o", "t", "e", "s">>, <<"-", "x">>, <<" ", "3", "0", " ", "l", "e", "f", "t", "o", "v", "e", "r", "s">>, <<" ", " ", "v", "1", ".", "2">>}
NumericNames ==
    {lead \o m \o <<" ">> \o d \o <<" ">> \o y \o rest :
        lead \in NameLeads, m \in MonthTokens, d \in DayTokens, y \in YearTokens,
        rest \in NameRests}
OtherNames ==
    {<<"C", "o", "l", "o", "n", "o", "s", "c", "o", "p", "y", " ", "F", "r", "i", "d", "a", "y", " ", "A", "u", "g", "u", "s", "t", " ", "5", "t", "h", " ", "2", "0", "2", "2">>, <<"S", "m", "a", "r", "t", " ", "5", " ", "2", "0", "2", "2">>, <<"n", "o", "t", "e", "s">>,
     <<"A", "u", "g", " ", "5", ",", " ", "2", "0", "2", "2", " ", "t", "r", "i", "p">>, <<"F", "r", "i", "d", "a", "y">>, <<"s", "e", "p", "t", " ", "3", "1", " ", "2", "0", "2", "2">>, <<"F", "r", "i", "d", "a", "y", " ", "1", "2", "3", " ", "1", "0", " ", "2", "5">>,
     <<"F", "r", "i", "d", "a", "y", " ", "1", " ", "1", "0", " ", "2">>, <<"D", "E", "C", " ", "1", "S", "T", " ", "2", "0", "2", "2", "5">>, <<"m", "a", "y", " ", "5", " ", "s", "t", " ", "2", "0", "2", "2">>}
BaseNames == NumericNames \cup OtherNames
ExportHash == <<"0", "1", "2", "3", "4", "5", "6", "7", "8", "9", "a", "b", "c", "d", "e", "f", "0", "1", "2", "3", "4", "5", "6", "7", "8", "9", "a", "b", "c", "d", "e", "f">>
HashTails == {<<>>, <<" ">> \o ExportHash, <<"-">> \o ExportHash}
MdExtension == <<".", "m", "d">>
Extensions == {<<>>, MdExtension}
\* Names with a long s where a month name has its s.
LongSNames == {<<"longs", "e", "p", " ", "5", " ", "2", "0", "2", "2">>, <<"T", "r", "i", "p", " ", "longs", "e", "p", "t", "e", "m", "b", "e", "r", " ", "5", "t", "h", ",", " ", "2", "0", "2", "2">>}
Filenames ==
    {base \o hash \o ext : base \in BaseNames, hash \in HashTails, ext \in Extensions}
        \cup {base \o MdExtension : base \in LongSNames}

\* A Markdown file of the journal directory: its name, its text as the list
\* of its lines (content.split('\n')), and whether read_text succeeds.
MdFile(name, body, readable) == [name |-> name, body |-> body, readable |-> readable]

\* The loop over the lines from index i on.  The heading branch's 'continue'
\* ends an iteration that has nothing left to do, so both of its paths go on
\* with the next line.
\* The loop if it dropped every level-1 heading line, not only the first.
RECURSIVE ReadLines_every_heading(_, _, _, _)
ReadLines_every_heading(lines, i, title_from_content, content_lines) ==
    IF i > Len(lines)
    THEN [title_from_content |-> title_from_content, content_lines |-> content_lines]
    ELSE IF StartsWith(lines[i], <<"#", " ">>)
    THEN ReadLines_every_heading(lines, i + 1,
                                 IF title_from_content = None
                                 THEN strip(DropFirst(lines[i], 2)) ELSE title_from_content,
                                 content_lines)
    ELSE IF StartsWith(lines[i], <<"C", "r", "e", "a", "t", "e", "d", ":">>) \/ StartsWith(lines[i], <<"U", "p", "d", "a", "t", "e", "d", ":">>)
    THEN ReadLines_every_heading(lines, i + 1, title_from_content, content_lines)
    ELSE ReadLines_every_heading(lines, i + 1, title_from_content,
                                 Append(content_lines, lines[i]))

RECURSIVE ReadLines(_, _, _, _)
ReadLines(lines, i, title_from_content, content_lines) ==
    IF i > Len(lines)
    THEN [title_from_content |-> title_from_content, content_lines |-> content_lines]
    ELSE LET line == lines[i] IN
         IF StartsWith(line, <<"#", " ">>) /\ title_from_content = None
         THEN ReadLines(lines, i + 1, strip(DropFirst(line, 2)), content_lines)
         ELSE IF StartsWith(line, <<"C", "r", "e", "a", "t", "e", "d", ":">>) \/ StartsWith(line, <<"U", "p", "d", "a", "t", "e", "d", ":">>)
         THEN ReadLines(lines, i + 1, title_from_content, content_lines)
         ELSE ReadLines(lines, i + 1, title_from_content, Append(content_lines, line))

\* '\n'.join(content_lines).strip(), as the list of the lines of the result.
join_strip(content_lines) ==
    LET nonblank == {i \in 1..Len(content_lines) : strip(content_lines[i]) # <<>>}
        first == CHOOSE i \in nonblank : \A j \in nonblank : i <= j
        last == CHOOSE i \in nonblank : \A j \in nonblank : j <= i
    IN  IF nonblank = {} THEN << <<>> >>
        ELSE IF first = last THEN << strip(content_lines[first]) >>
        ELSE [k \in 1..(last - first + 1) |->
                IF k = 1 THEN lstrip(content_lines[first], Spaces)
                ELSE IF k = last - first + 1 THEN rstrip(content_lines[last], Spaces)
                ELSE content_lines[first + k - 1]]

\* Python's truth value of an optional text.
Falsy(x) == x = None \/ x = <<>>

UntitledEntry == <<"U", "n", "t", "i", "t", "l", "e", "d", " ", "E", "n", "t", "r", "y">>

first_title_only(title_from_content, title_from_filename) ==
    IF title_from_content # None THEN title_from_content
    ELSE IF ~Falsy(title_from_filename) THEN title_from_filename
    ELSE UntitledEntry

\* title_from_content or title_from_filename or "Untitled Entry"
final_title(title_from_content, title_from_filename) ==
    IF ~Falsy(title_from_content) THEN title_from_content
    ELSE IF ~Falsy(title_from_filename) THEN title_from_filename
    ELSE UntitledEntry

entry_details(parsed, read) ==
    IF Raised(parsed) THEN parsed
    ELSE [date |-> parsed.date,
          title |-> final_title(read.title_from_content, parsed.title),
          content |-> join_strip(read.content_lines)]

get_entry_details(md_file) ==
    entry_details(extract_date_from_filename(md_file.name),
                  ReadLines(md_file.body, 1, None, <<>>))

\* The missing Timestamp: no date has month 0.
NaT == Timestamp(0, 0, 0, 0, 0, 0)

\* Whole years inside the range of a nanosecond Timestamp.
TimestampMinYear == 1678
TimestampMaxYear == 2261

IsLeapYear(y) == (y % 4 = 0 /\ y % 100 # 0) \/ y % 400 = 0
DaysInMonth(y, m) ==
    IF m \in {4, 6, 9, 11} THEN 30
    ELSE IF m = 2 THEN (IF IsLeapYear(y) THEN 29 ELSE 28)
    ELSE 31

accept_any_date(text) ==
    IF Len(text) = 10
    THEN Timestamp(Num(SubSeq(text, 1, 4)), Num(SubSeq(text, 6, 7)),
                   Num(SubSeq(text, 9, 10)), 0, 0, 0)
    ELSE NaT

\* pd.to_datetime(text, errors='coerce') on the texts date_str produces.
to_datetime_coerce(text) ==
    LET y == Num(SubSeq(text, 1, 4))
        m == Num(SubSeq(text, 6, 7))
        d == Num(SubSeq(text, 9, 10))
    IN  IF /\ Len(text) = 10 /\ text[5] = "-" /\ text[8] = "-"
           /\ \A i \in {1, 2, 3, 4, 6, 7, 9, 10} : IsDigit(text[i])
           /\ y >= TimestampMinYear /\ y <= TimestampMaxYear
           /\ m \in 1..12
           /\ d >= 1 /\ d <= DaysInMonth(y, m)
        THEN Timestamp(y, m, d, 0, 0, 0)
        ELSE NaT

\* The date column as to_csv writes it.
csv_date(ts) == Pad(ts.year, 4) \o <<"-">> \o Pad(ts.month, 2) \o <<"-">> \o Pad(ts.day, 2)

\* df.sort_values(by='date'): the rows in an ascending order of date; the
\* default sort does not promise an order among equal dates.
sort_values(rows) ==
    LET n == Len(rows)
        Key(r) == (r.date.year * 10000) + (r.date.month * 100) + r.date.day
        orders == {f \in [1..n -> 1..n] :
                      /\ \A i, j \in 1..n : i # j => f[i] # f[j]
                      /\ \A i, j \in 1..n : i < j => Key(rows[f[i]]) <= Key(rows[f[j]])}
    IN  {[i \in 1..n |-> rows[f[i]]] : f \in orders}

\* journal_path.glob('*.md')
glob_md(journal_dir) == SelectSeq(journal_dir.files, LAMBDA f : EndsWith(f.name, MdExtension))

\* The loop if it ended at the first file that raises or gives no date.
RECURSIVE ProcessFiles_stop_at_error(_, _, _, _, _)
ProcessFiles_stop_at_error(md_files, i, entries, processed_files, skipped_files) ==
    IF i > Len(md_files)
    THEN [entries |-> entries, processed_files |-> processed_files,
          skipped_files |-> skipped_files]
    ELSE IF \/ ~md_files[i].readable \/ Raised(get_entry_details(md_files[i]))
            \/ get_entry_details(md_files[i]).date = None
    THEN [entries |-> entries, processed_files |-> processed_files,
          skipped_files |-> skipped_files + 1]
    ELSE ProcessFiles_stop_at_error(md_files, i + 1,
                                    Append(entries, get_entry_details(md_files[i])),
                                    processed_files + 1, skipped_files)

\* The loop over md_files from index i on; a file whose read raises is
\* counted as skipped by the except branch.
RECURSIVE ProcessFiles(_, _, _, _, _)
ProcessFiles(md_files, i, entries, processed_files, skipped_files) ==
    IF i > Len(md_files)
    THEN [entries |-> entries, processed_files |-> processed_files,
          skipped_files |-> skipped_files]
    ELSE LET md_file == md_files[i]
             details == get_entry_details(md_file)
         IN  IF ~md_file.readable \/ Raised(details)
             THEN ProcessFiles(md_files, i + 1, entries, processed_files, skipped_files + 1)
             ELSE IF details.date # None
             THEN ProcessFiles(md_files, i + 1, Append(entries, details),
                               processed_files + 1, skipped_files)
             ELSE ProcessFiles(md_files, i + 1, entries, processed_files, skipped_files + 1)

OutputFile == <<"d", "a", "t", "a", "/", "j", "o", "u", "r", "n", "a", "l", "_", "e", "n", "t", "r", "i", "e", "s", ".", "c", "s", "v">>

\* What a run of convert_journal_files leaves: the value returned, whether
\* the output was written and with which rows, and the two counters.
Conversion(returned, written, output, loop) ==
    [returned |-> returned, written |-> written, output |-> output,
     processed_files |-> loop.processed_files, skipped_files |-> loop.skipped_files]

NoLoop == [processed_files |-> 0, skipped_files |-> 0]

\* df['date'] = pd.to_datetime(df['date'], errors='coerce')
parse_dates(entries) ==
    [i \in 1..Len(entries) |-> [entries[i] EXCEPT !.date = to_datetime_coerce(@)]]

\* df.dropna(subset=['date'])
dropna(df) == SelectSeq(df, LAMBDA r : r.date # NaT)

\* df.to_csv(output_file, index=False)
to_csv(df) == [i \in 1..Len(df) |-> [df[i] EXCEPT !.date = csv_date(@)]]

\* sort_values and to_csv on the rows kept, and the return of output_file.
write_output(kept, loop) ==
    {Conversion(OutputFile, TRUE, to_csv(sorted), loop) : sorted \in sort_values(kept)}

\* The function after its loop: the early return for no entries, else the
\* date validation and the output.
after_loop(loop) ==
    IF loop.entries = <<>> THEN {Conversion(None, FALSE, <<>>, loop)}
    ELSE UNION {write_output(kept, loop) : kept \in {dropna(parse_dates(loop.entries))}}

\* The results convert_journal_files(journal_dir) can give.
convert_journal_files(journal_dir) ==
    IF ~journal_dir.exists THEN {Conversion(None, FALSE, <<>>, NoLoop)}
    ELSE UNION {after_loop(loop) :
                  loop \in {ProcessFiles(glob_md(journal_dir), 1, <<>>, 0, 0)}}

\* Bounds: lines per file body, files per journal directory.
MaxLines == 4
MaxFiles == 3

BodyLines ==
    {<<"#", " ", "M", "o", "r", "n", "i", "n", "g", " ", "t", "h", "o", "u", "g", "h", "t", "s">>, <<"#", " ">>, <<>>, <<"C", "r", "e", "a", "t", "e", "d", ":", " ", "M", "a", "y", " ", "1">>, <<"U", "p", "d", "a", "t", "e", "d", ":", " ", "M", "a", "y", " ", "2">>,
     <<" ", "F", "e", "l", "t", " ", "c", "a", "l", "m", " ">>, <<"#", "T", "a", "g">>,
     <<" ", "C", "r", "e", "a", "t", "e", "d", ":", " ", "M", "a", "y", " ", "1">>}
Bodies == SeqsUpTo(BodyLines, MaxLines) \ {<<>>}

EntryNames == {<<"F", "r", "i", "d", "a", "y", " ", "1", " ", "1", "0", " ", "2", "5", " ", "G", "r", "a", "t", "i", "t", "u", "d", "e", ".", "m", "d">>, <<"1", " ", "1", "0", " ", "2", "5", ".", "m", "d">>, <<"n", "o", "t", "e", "s", ".", "m", "d">>}
EntryFiles == {MdFile(name, body, TRUE) : name \in EntryNames, body \in Bodies}

\* The files a journal directory is made of: dated and undated names, dates
\* that do not exist, a file that cannot be read, a file that is not Markdown.
JournalFiles ==
    {MdFile(<<"F", "r", "i", "d", "a", "y", " ", "1", " ", "1", "0", " ", "2", "5", " ", "G", "r", "a", "t", "i", "t", "u", "d", "e", ".", "m", "d">>, <<<<"#", " ", "M", "o", "r", "n", "i", "n", "g", " ", "t", "h", "o", "u", "g", "h", "t", "s">>, <<>>, <<"F", "e", "l", "t", " ", "c", "a", "l", "m">>>>, TRUE),
     MdFile(<<"1", " ", "1", "0", " ", "2", "5", " ", "b", ".", "m", "d">>, <<<<"L", "a", "t", "e", "r", " ", "t", "h", "a", "t", " ", "d", "a", "y">>>>, TRUE),
     MdFile(<<"2", " ", "2", "7", " ", "2", "0", "2", "2", " ", "J", "o", "b", ".", "m", "d">>, <<<<"C", "r", "e", "a", "t", "e", "d", ":", " ", "M", "a", "y", " ", "1">>, <<"G", "r", "a", "t", "e", "f", "u", "l">>>>, TRUE),
     MdFile(<<"F", "r", "i", "d", "a", "y", " ", "1", "3", " ", "4", "5", " ", "2", "5", " ", "x", ".", "m", "d">>, <<<<"M", "o", "n", "t", "h", " ", "t", "h", "i", "r", "t", "e", "e", "n">>>>, TRUE),
     MdFile(<<"2", " ", "2", "9", " ", "2", "0", "2", "3", ".", "m", "d">>, <<<<"N", "o", " ", "l", "e", "a", "p", " ", "d", "a", "y">>>>, TRUE),
     MdFile(<<"n", "o", "t", "e", "s", ".", "m", "d">>, <<<<"#", " ", "L", "o", "o", "s", "e", " ", "n", "o", "t", "e", "s">>>>, TRUE),
     MdFile(<<"3", " ", "1", " ", "2", "5", " ", "l", "o", "c", "k", "e", "d", ".", "m", "d">>, <<<<"u", "n", "r", "e", "a", "d", "a", "b", "l", "e">>>>, FALSE),
     MdFile(<<"t", "o", "d", "o", ".", "t", "x", "t">>, <<<<"n", "o", "t", " ", "m", "a", "r", "k", "d", "o", "w", "n">>>>, TRUE)}

\* A directory lists each of its files once, in the order glob yields them.
JournalDirs ==
    {[exists |-> FALSE, files |-> <<>>]}
    \cup {[exists |-> TRUE, files |-> fs] :
            fs \in {q \in SeqsUpTo(JournalFiles, MaxFiles) :
                       \A i, j \in 1..Len(q) : i # j => q[i] # q[j]}}

\* The outcome of a call: the value it returned, or the exception it raised.
Outcome(op, args, value) ==
    IF Raised(value) THEN Result(op, args, value.raised, None)
    ELSE Result(op, args, "none", value)

Call_extract_date_from_filename ==
    /\ IsPending("extract_date_from_filename")
    /\ ret' = Outcome("extract_date_from_filename", ret.args,
                      extract_date_from_filename(ret.args[1]))
    /\ Untouched

Call_get_entry_details ==
    /\ IsPending("get_entry_details")
    /\ ret' = Outcome("get_entry_details", ret.args, get_entry_details(ret.args[1]))
    /\ Untouched

Call_convert_journal_files ==
    /\ IsPending("convert_journal_files")
    /\ \E result \in convert_journal_files(ret.args[1]) :
          ret' = Result("convert_journal_files", ret.args, "none", result)
    /\ Untouched

\* The exit status of an interpreter whose script ran to its end.
ExitSuccess == 0

\* main of convert_journal.py run as a script on a source directory: the
\* value convert_journal_files returns is dropped and main returns normally.
convert_journal_main(journal_dir) ==
    {[returncode |-> ExitSuccess, conversion |-> result] :
        result \in convert_journal_files(journal_dir)}

\* main of setup_and_run.py: the conversion as a subprocess, then the
\* dashboard when the return code is 0.
setup_and_run_main(journal_dir) ==
    {[returncode |-> result.returncode, conversion |-> result.conversion,
      dashboard_launched |-> (result.returncode = 0)] :
        result \in convert_journal_main(journal_dir)}

Call_setup_and_run_main ==
    /\ IsPending("setup_and_run.main")
    /\ \E result \in setup_and_run_main(ret.args[1]) :
          ret' = Result("setup_and_run.main", ret.args, "none", result)
    /\ Untouched

SetupCalls == {Pending("setup_and_run.main", <<journal_dir>>) : journal_dir \in JournalDirs}

\* extract_date_from_filename of test_date_validation.py: the same cleaning
\* and the same three expressions, returning the date alone (here a record
\* with the date as its one field, or the exception raised).
Returned(date) == [date |-> date]
test_numeric_date(match) ==
    Returned(date_str(match.year, Num(match.month), Num(match.day)))
test_month_date(match) ==
    IF Lower(match.month_name) \in DOMAIN month_map
    THEN Returned(date_str(match.year, month_map[Lower(match.month_name)], Num(match.day)))
    ELSE Raise("KeyError")
test_parse_name(name) ==
    IF pattern1(name).matched THEN test_numeric_date(pattern1(name))
    ELSE IF pattern2(name).matched THEN test_numeric_date(pattern2(name))
    ELSE IF pattern3(name).matched THEN test_month_date(pattern3(name))
    ELSE Returned(None)

\* The copy if its month-name expression were tried at the start of the name only.
test_extract_date_anchored(filename) ==
    IF pattern1(cleaned_name(filename)).matched
    THEN test_numeric_date(pattern1(cleaned_name(filename)))
    ELSE IF pattern2(cleaned_name(filename)).matched
    THEN test_numeric_date(pattern2(cleaned_name(filename)))
    ELSE IF MatchMonthAt(cleaned_name(filename), 1).matched
    THEN test_month_date(MatchMonthAt(cleaned_name(filename), 1))
    ELSE Returned(None)

test_extract_date_from_filename(filename) ==
    test_parse_name(strip(strip_hash(splitext_root(filename))))

\* The outcome of a call of the copy: the date it returned, or the exception.
DateOutcome(op, args, value) ==
    IF Raised(value) THEN Result(op, args, value.raised, None)
    ELSE Result(op, args, "none", value.date)

Call_test_extract_date_from_filename ==
    /\ IsPending("test_date_validation.extract_date_from_filename")
    /\ ret' = DateOutcome("test_date_validation.extract_date_from_filename", ret.args,
                          test_extract_date_from_filename(ret.args[1]))
    /\ Untouched

TestFilenameCalls ==
    {Pending("test_date_validation.extract_date_from_filename", <<filename>>) :
        filename \in Filenames}

FilenameCalls ==
    {Pending("extract_date_from_filename", <<filename>>) : filename \in Filenames}
EntryCalls == {Pending("get_entry_details", <<md_file>>) : md_file \in EntryFiles}
DirCalls == {Pending("convert_journal_files", <<journal_dir>>) : journal_dir \in JournalDirs}

ConvertInit ==
    \/ InitCall(FilenameCalls)
    \/ InitCall(EntryCalls)
    \/ InitCall(DirCalls)
    \/ InitCall(SetupCalls)
    \/ InitCall(TestFilenameCalls)

ConvertNext ==
    \/ Call_extract_date_from_filename
    \/ Call_get_entry_details
    \/ Call_convert_journal_files
    \/ Call_setup_and_run_main
    \/ Call_test_extract_date_from_filename

ConvertSpec == ConvertInit /\ [][ConvertNext]_vars

\* The numeric expression that matched the cleaned name, pattern 1 tried first.
NumericMatch(name) == IF pattern1(name).matched THEN pattern1(name) ELSE pattern2(name)

\* A date text taken apart at its hyphens, and a group as the year it stands for.
DateFields(date) == SplitOn(date, "-")
YearOfGroup(year) == IF Len(year) = 2 THEN 2000 + Num(year) ELSE Num(year)

\* The text after index end with every leading blank and hyphen removed.
title_all_separators(name, end) ==
    lstrip(DropFirst(name, end), Spaces \cup Hyphens)

\* C14: for every filename matched by pattern 1 or pattern 2,
\* extract_date_from_filename returns a date whose month, day and year are the
\* matched groups (YY read as 20YY) and a residual title equal to the text of
\* the cleaned name after the matched span with leading whitespace and hyphen
\* separators removed.
C14_NumericDateAndResidualTitle ==
    ret.op = "extract_date_from_filename" =>
        LET name == cleaned_name(ret.args[1])
            m == NumericMatch(name)
            fields == DateFields(ret.value.date)
        IN  m.matched =>
              /\ Len(fields) = 3
              /\ Num(fields[1]) = YearOfGroup(m.year)
              /\ Num(fields[2]) = Num(m.month)
              /\ Num(fields[3]) = Num(m.day)
              /\ ret.value.title = title_all_separators(name, m.end)

\* The whitespace-separated tokens of a name, and numeric tokens.
NameTokens(name) == [n \in 1..Cardinality(TokenStarts(name)) |->
    TokenAt(name, CHOOSE i \in TokenStarts(name) :
                      Cardinality({j \in TokenStarts(name) : j < i}) = n - 1)]
IsNumeric(token) == token # <<>> /\ \A i \in 1..Len(token) : IsDigit(token[i])

\* The name starts with numeric tokens M D Y: one or two digits for the month
\* and the day, two or four for the year.
StartsWithMDY(name) ==
    LET t == NameTokens(name) IN
    /\ Len(t) >= 3
    /\ IsNumeric(t[1]) /\ Len(t[1]) \in 1..2
    /\ IsNumeric(t[2]) /\ Len(t[2]) \in 1..2
    /\ IsNumeric(t[3]) /\ Len(t[3]) \in {2, 4}

\* C15: for every filename whose cleaned name starts with three
\* whitespace-separated numeric tokens M D Y and has no leading weekday word,
\* the date returned has month M, day D and year Y (20Y for a two-digit Y),
\* whatever text or further numbers follow the three tokens.
C15_BareNumericIsMonthDayYear ==
    ret.op = "extract_date_from_filename" =>
        LET name == cleaned_name(ret.args[1])
            t == NameTokens(name)
            fields == DateFields(ret.value.date)
        IN  StartsWithMDY(name) =>
              /\ Len(fields) = 3
              /\ Num(fields[1]) = YearOfGroup(t[3])
              /\ Num(fields[2]) = Num(t[1])
              /\ Num(fields[3]) = Num(t[2])

\* C16: every date string returned through patterns 1 and 2 has the form
\* YYYY-MM-DD with a four-digit year.
C16_FourDigitYear ==
    ret.op = "extract_date_from_filename" =>
        LET date == ret.value.date IN
        NumericMatch(cleaned_name(ret.args[1])).matched =>
            /\ Len(date) = 10 /\ date[5] = "-" /\ date[8] = "-"
            /\ \A i \in {1, 2, 3, 4, 6, 7, 9, 10} : IsDigit(date[i])

\* C17: for every base name N, a filename made of N, a separator that is a
\* space or a hyphen, 32 lowercase hexadecimal characters and a file extension
\* is parsed to the same date and residual title as N alone.
C17_HashAndExtensionIgnored ==
    ret.op = "extract_date_from_filename" =>
        \A base \in BaseNames, separator \in {" ", "-"} :
            ret.args[1] = base \o <<separator>> \o ExportHash \o MdExtension =>
                ret.value = extract_date_from_filename(base)

\* The lines of a body that start a level-1 heading, and the text of a heading.
HeadingLines(body) == {i \in 1..Len(body) : StartsWith(body[i], <<"#", " ">>)}
FirstHeading(body) == CHOOSE i \in HeadingLines(body) : \A j \in HeadingLines(body) : i <= j
HeadingText(line) == strip(DropFirst(line, 2))
IsMetadata(line) ==
    \/ StartsWith(line, <<"C", "r", "e", "a", "t", "e", "d", ":">>)
    \/ StartsWith(line, <<"U", "p", "d", "a", "t", "e", "d", ":">>)

\* The body without its first heading line and its Created:/Updated: lines.
ContentOf(body) ==
    LET keep == {i \in 1..Len(body) :
                    /\ ~IsMetadata(body[i])
                    /\ (HeadingLines(body) = {} \/ i # FirstHeading(body))}
        Nth(n) == CHOOSE i \in keep : Cardinality({j \in keep : j < i}) = n - 1
    IN  join_strip([n \in 1..Cardinality(keep) |-> body[Nth(n)]])

\* The title by the precedence filename title, then "Untitled Entry".
FallbackTitle(name) ==
    LET residual == extract_date_from_filename(name).title
    IN  IF residual # <<>> THEN residual ELSE UntitledEntry

\* C18 as stated: get_entry_details takes the date only from the filename and
\* the title from the first level-1 heading line of the body if the body has
\* one, else the non-empty residual title of the filename, else "Untitled
\* Entry"; the heading line is not part of the content.
C18_HeadingThenFilenameTitle ==
    ret.op = "get_entry_details" =>
        LET md_file == ret.args[1]
            body == md_file.body
        IN  /\ ret.value.date = extract_date_from_filename(md_file.name).date
            /\ ret.value.title =
                  IF HeadingLines(body) # {} THEN HeadingText(body[FirstHeading(body)])
                  ELSE FallbackTitle(md_file.name)
            /\ ret.value.content = ContentOf(body)

\* C18: get_entry_details takes the date only from the filename and the title
\* from the first level-1 heading line of the body if the body has one and its
\* text is not empty, else the non-empty residual title of the filename, else
\* "Untitled Entry"; the first heading line is not part of the content.
C18_NonEmptyHeadingThenFilenameTitle ==
    ret.op = "get_entry_details" =>
        LET md_file == ret.args[1]
            body == md_file.body
        IN  /\ ret.value.date = extract_date_from_filename(md_file.name).date
            /\ ret.value.title =
                  IF HeadingLines(body) # {} /\ HeadingText(body[FirstHeading(body)]) # <<>>
                  THEN HeadingText(body[FirstHeading(body)])
                  ELSE FallbackTitle(md_file.name)
            /\ ret.value.content = ContentOf(body)
            /\ (/\ md_file.name = <<"F", "r", "i", "d", "a", "y", " ", "1", " ", "1", "0", " ", "2", "5", " ", "G", "r", "a", "t", "i", "t", "u", "d", "e", ".", "m", "d">>
                /\ HeadingLines(body) # {}
                /\ body[FirstHeading(body)] = <<"#", " ", "M", "o", "r", "n", "i", "n", "g", " ", "t", "h", "o", "u", "g", "h", "t", "s">>)
               => ret.value.date = <<"2", "0", "2", "5", "-", "0", "1", "-", "1", "0">> /\ ret.value.title = <<"M", "o", "r", "n", "i", "n", "g", " ", "t", "h", "o", "u", "g", "h", "t", "s">>

C18_Witness ==
    /\ ret.op = "get_entry_details"
    /\ ret.args[1].name = <<"F", "r", "i", "d", "a", "y", " ", "1", " ", "1", "0", " ", "2", "5", " ", "G", "r", "a", "t", "i", "t", "u", "d", "e", ".", "m", "d">>
    /\ ret.args[1].body = << <<"#", " ">>, <<"#", " ", "M", "o", "r", "n", "i", "n", "g", " ", "t", "h", "o", "u", "g", "h", "t", "s">>, <<" ", "F", "e", "l", "t", " ", "c", "a", "l", "m", " ">> >>
    /\ ret.value.title = <<"G", "r", "a", "t", "i", "t", "u", "d", "e">>
    /\ ret.value.content = << <<"#", " ", "M", "o", "r", "n", "i", "n", "g", " ", "t", "h", "o", "u", "g", "h", "t", "s">>, <<" ", "F", "e", "l", "t", " ", "c", "a", "l", "m">> >>

\* A date text names a day of the calendar.
MonthLengths == <<31, 28, 31, 30, 31, 30, 31, 31, 30, 31, 30, 31>>
IsCalendarDate(date) ==
    /\ Len(date) = 10 /\ date[5] = "-" /\ date[8] = "-"
    /\ \A i \in {1, 2, 3, 4, 6, 7, 9, 10} : IsDigit(date[i])
    /\ LET y == Num(SubSeq(date, 1, 4))
           m == Num(SubSeq(date, 6, 7))
           d == Num(SubSeq(date, 9, 10))
           leap_day == IF m = 2 /\ y % 4 = 0 /\ (y % 100 # 0 \/ y % 400 = 0) THEN 1 ELSE 0
       IN  m >= 1 /\ m <= 12 /\ d >= 1 /\ d <= MonthLengths[m] + leap_day

\* The files of a directory that the loop turns into an entry, and those of
\* them whose date is a day of the calendar.
ProcessedFiles(journal_dir) ==
    SelectSeq(journal_dir.files,
              LAMBDA f : /\ EndsWith(f.name, MdExtension) /\ f.readable
                         /\ extract_date_from_filename(f.name).date # None)
ValidFiles(journal_dir) ==
    SelectSeq(ProcessedFiles(journal_dir),
              LAMBDA f : IsCalendarDate(extract_date_from_filename(f.name).date))

\* C19: convert_journal_files returns None and writes no output exactly when
\* the source directory does not exist or no entry survives all filters, the
\* second-stage date validation included; otherwise it writes the output and
\* returns its location.
C19_FailsExactlyWhenNothingSurvives ==
    ret.op = "convert_journal_files" =>
        LET journal_dir == ret.args[1]
            nothing == ~journal_dir.exists \/ ValidFiles(journal_dir) = <<>>
        IN  /\ nothing => ret.value.returned = None /\ ~ret.value.written
            /\ ~nothing => ret.value.returned = OutputFile /\ ret.value.written

ProcessedAt(journal_dir, row) ==
    CHOOSE i \in 1..Len(ValidFiles(journal_dir)) :
        get_entry_details(ValidFiles(journal_dir)[i]) = row

\* C21: the rows written by convert_journal_files are in ascending date
\* order, and two rows with the same date appear in the relative order in
\* which their files were processed.
C21_AscendingAndStable ==
    ret.op = "convert_journal_files" /\ ret.value.written =>
        LET journal_dir == ret.args[1]
            output == ret.value.output
        IN  \A i, j \in 1..Len(output) :
               i < j =>
                  /\ TextLeq(output[i].date, output[j].date)
                  /\ output[i].date = output[j].date =>
                        ProcessedAt(journal_dir, output[i]) < ProcessedAt(journal_dir, output[j])

\* The *.md files of a directory, and those of them that the loop cannot
\* turn into an entry: the read fails or the filename gives no date.
EnumeratedFiles(journal_dir) ==
    SelectSeq(journal_dir.files, LAMBDA f : EndsWith(f.name, MdExtension))
UndatedFiles(journal_dir) ==
    SelectSeq(EnumeratedFiles(journal_dir),
              LAMBDA f : ~f.readable \/ extract_date_from_filename(f.name).date = None)

\* C22: the processed count reported by convert_journal_files equals the
\* number of rows of the output, and the skipped count equals the number of
\* files from which no date could be extracted.
C22_CountsMatchOutput ==
    ret.op = "convert_journal_files" /\ ret.value.written =>
        /\ ret.value.processed_files = Len(ret.value.output)
        /\ ret.value.skipped_files = Len(UndatedFiles(ret.args[1]))

\* C23: a file whose extraction raises or whose filename gives no date never
\* aborts the batch: every *.md file is counted exactly once, as processed
\* or as skipped, and the files after a bad one are still processed.
C23_EveryFileCountedOnce ==
    ret.op = "convert_journal_files" /\ ret.args[1].exists =>
        LET journal_dir == ret.args[1]
        IN  /\ ret.value.processed_files + ret.value.skipped_files
                  = Len(EnumeratedFiles(journal_dir))
            /\ ret.value.processed_files = Len(ProcessedFiles(journal_dir))
            /\ ret.value.skipped_files = Len(UndatedFiles(journal_dir))

C23_Witness ==
    /\ ret.op = "convert_journal_files"
    /\ Len(ret.args[1].files) = 3
    /\ ~ret.args[1].files[1].readable
    /\ extract_date_from_filename(ret.args[1].files[2].name).date = None
    /\ EndsWith(ret.args[1].files[2].name, MdExtension)
    /\ ret.value.processed_files = 1
    /\ ret.value.skipped_files = 2
    /\ Len(ret.value.output) = 1

\* The category counts of a frame, and the first row of each category.
CategoryCount(df, c) == Cardinality({i \in 1..Len(df) : df[i].mood_category = c})
FirstRowOf(df, c) == CHOOSE i \in 1..Len(df) :
                        /\ df[i].mood_category = c
                        /\ \A j \in 1..(i - 1) : df[j].mood_category # c

\* C24: on a non-empty frame the most common mood returned by
\* get_mood_statistics of nlp_utils is a category with the maximum count, and
\* among several categories with that count it is the one whose first entry
\* comes earliest in the frame.
C24_ModeTiesFirstEncountered ==
    ret.op = "nlp_utils.get_mood_statistics" /\ ret.args[1] # <<>> =>
        LET df == ret.args[1]
            present == {df[i].mood_category : i \in 1..Len(df)}
            most == {c \in present : \A d \in present : CategoryCount(df, d) <= CategoryCount(df, c)}
        IN  /\ ret.value.most_common_mood \in most
            /\ \A c \in most : FirstRowOf(df, ret.value.most_common_mood) <= FirstRowOf(df, c)

\* The calendar days after the day of one instant up to the day of a later
\* one; the whole days between the two instants are as many, less one when
\* the later clock time is short of the earlier.
ClockOf(ts) == ts.hour * 3600 + ts.minute * 60 + ts.second
DayBefore(a, b) ==
    \/ a.year < b.year
    \/ a.year = b.year /\ a.month < b.month
    \/ a.year = b.year /\ a.month = b.month /\ a.day < b.day
InstantLeq(a, b) ==
    DayBefore(a, b) \/ (~DayBefore(b, a) /\ ClockOf(a) <= ClockOf(b))
DaysWithin(from, to) ==
    {day \in [year : from.year..to.year, month : 1..12, day : 1..31] :
        /\ day.day <= MonthLengths[day.month]
                        + (IF day.month = 2 /\ day.year % 4 = 0
                              /\ (day.year % 100 # 0 \/ day.year % 400 = 0) THEN 1 ELSE 0)
        /\ DayBefore(from, day)
        /\ ~DayBefore(to, day)}
WholeDays(from, to) ==
    LET days == Cardinality(DaysWithin(from, to))
    IN  IF days > 0 /\ ClockOf(to) < ClockOf(from) THEN days - 1 ELSE days

\* C25: get_mood_statistics of nlp_utils is total: on an empty frame it
\* returns (0, 0.0, "N/A", 0), and on a non-empty frame the entry count and
\* the whole number of days between the earliest and the latest date, which
\* is 0 when all entries share one date.
C25_TotalWithCountAndSpan ==
    ret.op = "nlp_utils.get_mood_statistics" =>
        LET df == ret.args[1]
            earliest == CHOOSE i \in 1..Len(df) : \A j \in 1..Len(df) : InstantLeq(df[i].date, df[j].date)
            latest == CHOOSE i \in 1..Len(df) : \A j \in 1..Len(df) : InstantLeq(df[j].date, df[i].date)
        IN  /\ ret.raised = "none"
            /\ df = <<>> =>
                  ret.value = [total_entries |-> 0, avg_mood |-> Zero,
                               most_common_mood |-> "N/A", date_range |-> 0]
            /\ df # <<>> =>
                  /\ ret.value.total_entries = Len(df)
                  /\ ret.value.date_range = WholeDays(df[earliest].date, df[latest].date)
                  /\ (\A i \in 1..Len(df) : df[i].date = df[1].date) => ret.value.date_range = 0

C25_Witness ==
    /\ ret.op = "nlp_utils.get_mood_statistics"
    /\ ret.value.total_entries = 3
    /\ ret.args[1][1].date = to_datetime(<<"2", "0", "2", "5", "-", "0", "1", "-", "1", "0", " ", "2", "3", ":", "3", "0", ":", "0", "0">>)
    /\ ret.args[1][2].date = to_datetime(<<"2", "0", "2", "4", "-", "0", "2", "-", "2", "8">>)
    /\ ret.args[1][3].date = to_datetime(<<"2", "0", "2", "4", "-", "0", "3", "-", "0", "1">>)
    /\ ret.value.date_range = 317

\* C26: the conversion entry point ends with a failure status when the source
\* directory is missing or zero entries survive, and with success otherwise,
\* also when some files were skipped; setup_and_run therefore never launches
\* the dashboard after a failed conversion.
C26_FailureStatusStopsDashboard ==
    ret.op = "setup_and_run.main" =>
        LET journal_dir == ret.args[1]
            failed == ~journal_dir.exists \/ ValidFiles(journal_dir) = <<>>
        IN  /\ failed => ret.value.returncode # 0 /\ ~ret.value.dashboard_launched
            /\ ~failed => ret.value.returncode = 0 /\ ret.value.dashboard_launched

\* The lines of a body in order without those at the indexes dropped, joined
\* and trimmed as the content is.
ContentWithout(body, dropped) ==
    LET keep == (1..Len(body)) \ dropped
        Nth(n) == CHOOSE i \in keep : Cardinality({j \in keep : j < i}) = n - 1
    IN  join_strip([n \in 1..Cardinality(keep) |-> body[Nth(n)]])

MetadataLines(body) == {i \in 1..Len(body) : IsMetadata(body[i])}

\* The only heading line that gives the title: the first line that begins
\* with the heading marker.
TitleLine(body) == IF HeadingLines(body) = {} THEN {} ELSE {FirstHeading(body)}

\* The blank line right after the first heading line, if there is one.
BlankAfterHeading(body) ==
    {i \in 2..Len(body) : (i - 1) \in TitleLine(body) /\ strip(body[i]) = <<>>}

\* C27: wherever the first level-1 heading line of a body stands, a blank
\* line that immediately follows it is not part of the extracted content: the
\* content is the remaining lines joined in order, with no empty line left at
\* the position of the heading.
C27_BlankAfterHeadingDropped ==
    ret.op = "get_entry_details" =>
        LET body == ret.args[1].body
        IN  ret.value.content =
                ContentWithout(body, TitleLine(body) \cup BlankAfterHeading(body)
                                        \cup MetadataLines(body))

\* The lines of a body in order without those at the indexes dropped; a text
\* without lines is the empty text.
LinesWithout(body, dropped) ==
    LET keep == (1..Len(body)) \ dropped
        Nth(n) == CHOOSE i \in keep : Cardinality({j \in keep : j < i}) = n - 1
    IN  IF keep = {} THEN << <<>> >> ELSE [n \in 1..Cardinality(keep) |-> body[Nth(n)]]

\* C28 as stated: the extracted content contains no line beginning with
\* Created: or Updated:, at whatever position such lines occur, and every
\* other line except the first level-1 heading line is retained, in the
\* original order, a second heading line included.
C28_MetadataDroppedRestKept ==
    ret.op = "get_entry_details" =>
        LET body == ret.args[1].body
            content == ret.value.content
        IN  /\ content = LinesWithout(body, TitleLine(body) \cup MetadataLines(body))
            /\ \A k \in 1..Len(content) : ~IsMetadata(content[k])

\* C28: the extracted content has no line of the body that begins with
\* Created: or Updated:, at whatever position such lines occur, and every
\* other line except the first level-1 heading line is retained in the
\* original order, a second heading line included; the content is those
\* lines joined and trimmed of leading and trailing whitespace.
C28_MetadataDroppedRestKeptTrimmed ==
    ret.op = "get_entry_details" =>
        LET body == ret.args[1].body
        IN  ret.value.content =
                ContentWithout(body, TitleLine(body) \cup MetadataLines(body))

C28_Witness ==
    /\ ret.op = "get_entry_details"
    /\ ret.args[1].body = << <<"#", " ", "M", "o", "r", "n", "i", "n", "g", " ", "t", "h", "o", "u", "g", "h", "t", "s">>, <<"C", "r", "e", "a", "t", "e", "d", ":", " ", "M", "a", "y", " ", "1">>,
                             <<"#", " ", "M", "o", "r", "n", "i", "n", "g", " ", "t", "h", "o", "u", "g", "h", "t", "s">>, <<"U", "p", "d", "a", "t", "e", "d", ":", " ", "M", "a", "y", " ", "2">> >>
    /\ ret.value.content = << <<"#", " ", "M", "o", "r", "n", "i", "n", "g", " ", "t", "h", "o", "u", "g", "h", "t", "s">> >>

\* A token that ends in a month word: a run of letters that starts the token
\* or follows a character that is no letter, whose first three letters, case
\* ignored, name a month.
TrailingLetters(token) ==
    LET n == Len(token)
        start == CHOOSE i \in 1..(n + 1) :
                    /\ \A k \in i..n : IsAlpha(token[k])
                    /\ (i = 1 \/ ~IsAlpha(token[i - 1]))
    IN  SubSeq(token, start, n)
IsMonthWord(token) ==
    /\ Len(TrailingLetters(token)) >= 3
    /\ Lower(SubSeq(TrailingLetters(token), 1, 3)) \in DOMAIN month_map
MonthOfWord(token) == month_map[Lower(SubSeq(TrailingLetters(token), 1, 3))]

\* A day token: one or two digits, an optional ordinal suffix, an optional comma.
DayDigits(token) == SubSeq(token, 1, RunLen(token, 1, Digits))
IsDayToken(token) ==
    /\ Len(DayDigits(token)) \in 1..2
    /\ Lower(DropFirst(token, Len(DayDigits(token)))) \in
          {<<>>, <<",">>, <<"s", "t">>, <<"n", "d">>, <<"r", "d">>, <<"t", "h">>, <<"s", "t", ",">>, <<"n", "d", ",">>, <<"r", "d", ",">>, <<"t", "h", ",">>}

\* A token that begins with a four-digit year.
IsYearToken(token) == Len(token) >= 4 /\ \A i \in 1..4 : IsDigit(token[i])

\* The places in a name where a month word, a day and a year follow one another.
MonthForms(name) ==
    {k \in 1..(Len(NameTokens(name)) - 2) :
        /\ IsMonthWord(NameTokens(name)[k])
        /\ IsDayToken(NameTokens(name)[k + 1])
        /\ IsYearToken(NameTokens(name)[k + 2])}
MonthFormDate(name) ==
    LET k == CHOOSE i \in MonthForms(name) : \A j \in MonthForms(name) : i <= j
        t == NameTokens(name)
    IN  SubSeq(t[k + 2], 1, 4) \o <<"-">> \o Pad(MonthOfWord(t[k]), 2)
            \o <<"-">> \o Pad(Num(DayDigits(t[k + 1])), 2)

\* C29: for a cleaned name that matches neither numeric pattern,
\* extract_date_from_filename returns the date of the month name, day and
\* four-digit year the name contains, the month looked up from the first
\* three letters of the month name, case ignored, with the whole cleaned name
\* as residual title; without such a form it returns an absent date and the
\* whole cleaned name; and it returns for every filename without raising.
C29_MonthNameOrNoDate ==
    ret.op = "extract_date_from_filename" =>
        LET name == cleaned_name(ret.args[1])
        IN  /\ ret.raised = "none"
            /\ ~pattern1(name).matched /\ ~pattern2(name).matched =>
                  ret.value = [date |-> IF MonthForms(name) # {} THEN MonthFormDate(name)
                                        ELSE None,
                               title |-> name]

\* C30: the two copies of the filename date parser agree: for every filename
\* the copy of test_date_validation.py returns the date that the copy of
\* convert_journal.py returns as its date component, or the same absence of
\* a date.
C30_CopiesAgreeOnDate ==
    ret.op = "test_date_validation.extract_date_from_filename" =>
        LET converter == extract_date_from_filename(ret.args[1])
        IN  IF Raised(converter) THEN ret.raised = converter.raised
            ELSE ret.raised = "none" /\ ret.value = converter.date

C30_Witness ==
    /\ ret.op = "test_date_validation.extract_date_from_filename"
    /\ ret.args[1] = <<"C", "o", "l", "o", "n", "o", "s", "c", "o", "p", "y", " ", "F", "r", "i", "d", "a", "y", " ", "A", "u", "g", "u", "s", "t", " ", "5", "t", "h", " ", "2", "0", "2", "2", ".", "m", "d">>
    /\ ret.value = <<"2", "0", "2", "2", "-", "0", "8", "-", "0", "5">>
    /\ extract_date_from_filename(ret.args[1]).date = <<"2", "0", "2", "2", "-", "0", "8", "-", "0", "5">>

====
